---- MODULE Spec2Model ----
(***************************************************************************)
(* A model of rsshub-mcp: the RSSHub API client (rsshub-api/src/lib.rs)    *)
(* with its TTL cache and retry helper, and the MCP tool dispatcher        *)
(* (rsshub-mcp/src/service.rs) that validates tool calls and wraps the     *)
(* client's results.  Callers are concurrent tasks on one shared client.   *)
(* The handlers' searches and rankings and the feed parser are followed on *)
(* fetched values of their own (SpecHandlers).                             *)
(***************************************************************************)
EXTENDS Integers, Sequences, FiniteSets, TLC

\* ------------------------------------------------------------------ bounds

\* Concurrent callers (tasks) sharing one client.
MaxProcs == 2
\* Tool calls started in one behaviour, all callers together.
MaxCalls == 2
\* The clock stops at MaxTime ticks; a second has TicksPerSec ticks.
MaxTime == 4
TicksPerSec == 2
\* Configured values of retries range over 0..MaxRetries, TTLs over 0..MaxTtl.
MaxRetries == 2
MaxTtl == 1

Procs == 1..MaxProcs

\* ------------------------------------------------------------ Option, JSON

None == [some |-> FALSE]
Some(v) == [some |-> TRUE, val |-> v]

\* serde_json::Value as the dispatcher sees it in arguments.
JStr(s) == [kind |-> "string", s |-> s, n |-> 0]
JNum(n) == [kind |-> "number", s |-> "", n |-> n]

\* Value::as_str: Some only for a JSON string.
as_str(v) == IF v.kind = "string" THEN Some(v.s) ELSE None

\* The mutant of as_u64: only a number of the schema's range 1..200 is taken.
as_u64_in_range(v) == IF v.kind = "number" /\ v.n >= 1 /\ v.n <= 200 THEN Some(v.n) ELSE None

\* Value::as_u64: Some only for a number that is a non-negative integer.
as_u64(v) == IF v.kind = "number" /\ v.n >= 0 THEN Some(v.n) ELSE None

\* Map::get on the arguments object.
get(args, key) == IF key \in DOMAIN args THEN Some(args[key]) ELSE None

\* Option::and_then with as_str / as_u64.
and_then_as_str(o) == IF o.some THEN as_str(o.val) ELSE None
and_then_as_u64(o) == IF o.some THEN as_u64(o.val) ELSE None

\* request.arguments.as_ref().and_then(|args| args.get(key)).and_then(|v| v.as_str())
arg_str(arguments, key) ==
    and_then_as_str(IF arguments.some THEN get(arguments.val, key) ELSE None)

\* str::eq_ignore_ascii_case(_, "json") on the format strings of the model.
eq_ignore_ascii_case_json(s) == s \in {"json", "JSON", "Json"}

\* format.unwrap_or("text").eq_ignore_ascii_case("json")
wants_json(format) == eq_ignore_ascii_case_json(IF format.some THEN format.val ELSE "text")

\* ------------------------------------------------------- the tool registry

\* The names list_tools advertises, in its order.
ToolNames == << "get_all_namespaces", "get_namespace", "search_namespaces",
               "get_radar_rules", "get_radar_rule", "get_categories",
               "get_category", "get_feed", "search_routes",
               "get_route_detail", "suggest_route_keys" >>

ListedTools == { ToolNames[i] : i \in 1..Len(ToolNames) }

\* MCPError::invalid_params / MCPError::method_not_found
invalid_params(msg) == [kind |-> "mcp_error", code |-> "invalid_params", msg |-> msg]
method_not_found(msg) == [kind |-> "mcp_error", code |-> "method_not_found", msg |-> msg]

\* A match arm that passed validation: the handler it awaits, the client
\* operation that handler calls first ("none" for get_categories), that
\* operation's argument, and the handler's format and limit options
\* (search_namespaces takes its optional query in the place of a format).
Handler(h, op, param, format, limit) ==
    [kind |-> "call", handler |-> h, op |-> op, param |-> param,
     format |-> format, limit |-> limit]

\* .ok_or_else(|| MCPError::invalid_params(msg))? followed by the rest of the arm
ok_or_invalid(o, msg, rest) == IF o.some THEN rest ELSE invalid_params(msg)

\* The mutant of the fallback: the alternative is never taken.
or_else_never(o, alt) == o

\* Option::or_else(|| alt)
or_else(o, alt) == IF o.some THEN o ELSE alt

\* The mutant of the catch-all arm: an unknown name is answered as a
\* validation failure.
MatchUnknownAsInvalid(name) == invalid_params("Unknown tool: " \o name)

\* The catch-all arm of the match on request.name.
MatchUnknown(name) == method_not_found("Unknown tool: " \o name)

\* The mutant of the required-argument lookup: any present value counts.
required_str_any(args, key) ==
    IF ~args.some THEN None
    ELSE IF key \in DOMAIN args.val THEN Some(args.val[key].s) ELSE None

\* A required string argument: args.get(key).and_then(|v| v.as_str())
required_str(args, key) == arg_str(args, key)

\* The match on request.name of handle_tool_call, up to the handler call.
Dispatch(name, a) ==
    CASE name = "get_all_namespaces" ->
           Handler("handle_get_all_namespaces", "get_all_namespaces", "", None, None)
      [] name = "get_namespace" ->
           ok_or_invalid(required_str(a, "namespace"), "namespace parameter is required",
             Handler("handle_get_namespace", "get_namespace",
                     required_str(a, "namespace").val, arg_str(a, "format"), None))
      [] name = "search_namespaces" ->
           Handler("handle_search_namespaces", "get_all_namespaces", "",
                   arg_str(a, "query"), None)
      [] name = "get_radar_rules" ->
           Handler("handle_get_radar_rules", "get_all_radar_rules", "",
                   arg_str(a, "format"), None)
      [] name = "get_radar_rule" ->
           LET rule_name_opt == or_else(arg_str(a, "rule_name"), arg_str(a, "domain"))
           IN ok_or_invalid(rule_name_opt, "rule_name or domain parameter is required",
                Handler("handle_get_radar_rule", "get_radar_rule",
                        rule_name_opt.val, arg_str(a, "format"), None))
      [] name = "get_categories" ->
           Handler("handle_get_categories", "none", "", None, None)
      [] name = "get_category" ->
           ok_or_invalid(required_str(a, "category"), "category parameter is required",
             Handler("handle_get_category", "get_category",
                     required_str(a, "category").val, arg_str(a, "format"), None))
      [] name = "get_feed" ->
           ok_or_invalid(required_str(a, "path"), "path parameter is required",
             Handler("handle_get_feed", "get_feed",
                     required_str(a, "path").val, arg_str(a, "format"), None))
      [] name = "search_routes" ->
           ok_or_invalid(a, "arguments are required",
           ok_or_invalid(required_str(a, "query"), "query parameter is required",
             Handler("handle_search_routes",
                     IF arg_str(a, "namespace").some THEN "get_namespace"
                                                     ELSE "get_all_namespaces",
                     IF arg_str(a, "namespace").some THEN arg_str(a, "namespace").val
                                                     ELSE "",
                     arg_str(a, "format"),
                     and_then_as_u64(get(a.val, "limit")))))
      [] name = "get_route_detail" ->
           ok_or_invalid(a, "arguments are required",
           ok_or_invalid(required_str(a, "namespace"), "namespace parameter is required",
           ok_or_invalid(required_str(a, "route_key"), "route_key parameter is required",
             Handler("handle_get_route_detail", "get_namespace",
                     required_str(a, "namespace").val, arg_str(a, "format"), None))))
      [] name = "suggest_route_keys" ->
           ok_or_invalid(a, "arguments are required",
           ok_or_invalid(required_str(a, "namespace"), "namespace parameter is required",
           ok_or_invalid(required_str(a, "partial"), "partial parameter is required",
             Handler("handle_suggest_route_keys", "get_namespace",
                     required_str(a, "namespace").val, None,
                     and_then_as_u64(get(a.val, "limit"))))))
      [] OTHER -> MatchUnknown(name)

\* ------------------------------------------------------ the client's tables

\* The mutant of the caching asymmetry: get_namespace consults the cache too.
BulkOpsAndNamespace == {"get_all_namespaces", "get_all_radar_rules", "get_namespace"}

\* The two bulk operations, which consult the cache, and their cache keys.
BulkOps == {"get_all_namespaces", "get_all_radar_rules"}
TargetedOps == {"get_namespace", "get_radar_rule", "get_category", "get_feed"}
ClientOps == BulkOps \cup TargetedOps

\* The mutant of the keys: both bulk operations use one key.
OpKeyShared(op) == "namespaces"

\* The key each bulk operation passes to get_json and put_json.
OpKey(op) == IF op = "get_all_namespaces" THEN "namespaces" ELSE "radar_rules"

\* The type each operation deserializes the body into.
OpType(op) ==
    CASE op = "get_all_namespaces" -> "NamespaceResp"
      [] op = "get_namespace" -> "RoutesMap"
      [] op = "get_all_radar_rules" -> "RulesResp"
      [] op = "get_radar_rule" -> "RulesInfo"
      [] op = "get_category" -> "CategoryItems"
      [] op = "get_feed" -> "FeedResponse"

\* The error of each operation's else branch (response.status() not a success).
StatusError(op, param) ==
    CASE op = "get_all_namespaces" -> "Failed to fetch namespaces"
      [] op = "get_namespace" -> "Failed to fetch namespace"
      [] op = "get_all_radar_rules" -> "Failed to fetch radar rules"
      [] op = "get_radar_rule" -> "Failed to fetch radar rule"
      [] op = "get_category" -> "Failed to fetch category"
      [] op = "get_feed" -> "Failed to fetch RSS feed from path: " \o param

\* A deserialized catalog: its Rust type and the response body it came from
\* (bodies are told apart by the number of the request that fetched them).
Typed(typ, id) == [typ |-> typ, id |-> id]

\* serde_json::to_value(&x) and serde_json::from_value::<T>(v)
to_value(x) == [json |-> x.id]
from_value(typ, v) == Typed(typ, v.json)

\* Result<T> of a client operation and of a handler.
Ok(x) == [ok |-> TRUE, val |-> x]
Err(msg) == [ok |-> FALSE, msg |-> msg]

\* What the network can answer to one request: a transport failure of send(),
\* a response with a non-2xx status, a 2xx response whose body matches the
\* schema (a feed, for get_feed), a 2xx response whose body does not, and a
\* 2xx response whose body cannot be read to its end.
Outcomes == {"transport", "non2xx", "ok", "mismatch", "unreadable"}

\* The message of the reqwest error of request number id.
TransportError(id) == "error sending request #" \o ToString(id)
DecodeError == "error decoding response body"
BodyError == "error reading response body"

\* ---------------------------------------------------------------- handlers

\* The text a handler makes of the value its client operation returned.
ValueText(x) == x.typ \o "#" \o ToString(x.id)

Render(h, x) ==
    CASE h.handler = "handle_get_all_namespaces" -> "debug:" \o ValueText(x)
      [] h.handler \in {"handle_get_namespace", "handle_get_radar_rules",
                        "handle_get_radar_rule", "handle_get_category"} ->
           (IF wants_json(h.format) THEN "json:" ELSE "debug:") \o ValueText(x)
      [] h.handler = "handle_get_feed" ->
           (IF wants_json(h.format) THEN "json:" ELSE "summary:") \o ValueText(x)
      [] h.handler = "handle_search_namespaces" -> "namespaces:" \o ValueText(x)
      [] h.handler = "handle_search_routes" ->
           (IF wants_json(h.format) THEN "json:hits:" ELSE "hits:") \o ValueText(x)
      [] h.handler = "handle_get_route_detail" ->
           (IF wants_json(h.format) THEN "json:detail:" ELSE "detail:") \o ValueText(x)
      [] h.handler = "handle_suggest_route_keys" -> "suggested:" \o ValueText(x)

\* handle_get_categories: a fixed text, no client operation.
CategoriesText == "Available categories: blog, news, ..."

\* The mutant of the handlers' ?: the operation's error becomes the handler's
\* Ok text.
HandlerResultSwallow(h, r) ==
    IF r.ok THEN Ok(Render(h, r.val)) ELSE Ok("Error: " \o r.msg)

\* A handler's result from its client operation's result (the ? after await).
HandlerResult(h, r) == IF r.ok THEN Ok(Render(h, r.val)) ELSE r

\* The mutant of the final match: a handler's error leaves handle_tool_call
\* as a protocol error.
ToolCallResponseRaise(result) ==
    IF result.ok
    THEN [kind |-> "response", text |-> result.val, is_error |-> FALSE]
    ELSE [kind |-> "mcp_error", code |-> "internal_error", msg |-> result.msg]

\* The final match of handle_tool_call on the handler's result.
ToolCallResponse(result) ==
    IF result.ok
    THEN [kind |-> "response", text |-> result.val, is_error |-> FALSE]
    ELSE [kind |-> "response", text |-> "Error: " \o result.msg, is_error |-> TRUE]

\* ----------------------------------------------------------- the catalog

\* Tool { name, description, input_schema }: of the schema, each property's
\* name and type and the required list.
Tool(name, description, properties, required) ==
    [name |-> name, description |-> description,
     input_schema |-> [properties |-> properties, required |-> required]]

FormatProperty == << "format", "string" >>

\* let tools = vec![...] of list_tools.
Tools ==
    << Tool("get_all_namespaces", "Get all available namespaces in RSSHub", {}, << >>),
       Tool("get_namespace", "Get routes for a specific namespace",
            {<< "namespace", "string" >>, FormatProperty}, << "namespace" >>),
       Tool("search_namespaces",
            "Search for namespaces by keyword or list all available namespaces",
            {<< "query", "string" >>}, << >>),
       Tool("get_radar_rules", "Get all radar rules for automatic feed detection",
            {FormatProperty}, << >>),
       Tool("get_radar_rule", "Get a specific radar rule by name",
            {<< "rule_name", "string" >>, << "domain", "string" >>, FormatProperty}, << >>),
       Tool("get_categories",
            "List known RSSHub categories (informational; use get_category for details)",
            {}, << >>),
       Tool("get_category", "Get feeds for a specific category",
            {<< "category", "string" >>, FormatProperty}, << "category" >>),
       Tool("get_feed", "Fetch actual RSS feed content from a RSSHub path",
            {<< "path", "string" >>, FormatProperty}, << "path" >>),
       Tool("search_routes",
            "Search routes by keyword across all namespaces or within a specific namespace",
            {<< "query", "string" >>, << "namespace", "string" >>,
             << "limit", "integer" >>, FormatProperty}, << "query" >>),
       Tool("get_route_detail",
            "Get detailed information for a specific route within a namespace",
            {<< "namespace", "string" >>, << "route_key", "string" >>, FormatProperty},
            << "namespace", "route_key" >>),
       Tool("suggest_route_keys",
            "Suggest closest route keys within a namespace for a partial path",
            {<< "namespace", "string" >>, << "partial", "string" >>,
             << "limit", "integer" >>}, << "namespace", "partial" >>) >>

\* ListToolsRequest { cursor }: without a cursor and with one.
ListToolsRequests == { [cursor |-> None], [cursor |-> Some("c")] }

\* The mutant of list_tools: the catalog is paged, a request with a cursor
\* gets the page after the last.
list_tools_paged(request) ==
    IF request.cursor.some THEN Ok([tools |-> << >>, next_cursor |-> None])
                           ELSE Ok([tools |-> Tools, next_cursor |-> Some("c")])

\* The mutant of the catalog: the descriptor of get_categories is left out.
list_tools_without_categories(request) ==
    Ok([tools |-> SelectSeq(Tools, LAMBDA t : t.name # "get_categories"),
        next_cursor |-> None])

\* list_tools(&self, _request): Ok(ListToolsResponse { tools, next_cursor: None })
list_tools(request) == Ok([tools |-> Tools, next_cursor |-> None])

\* ------------------------------------------------------------------- state

VARIABLES
    cfg,       \* RsshubApiClient: retries, namespaces_ttl_secs, radar_rules_ttl_secs
    now,       \* the monotonic clock (Instant::now()), in ticks
    lock,      \* the cache mutex: 0 when free, else the caller holding the guard
    cache,     \* CacheStore.json: key -> <<value, stored-at instant>>
    sent,      \* HTTP requests issued so far; a request's number names its body
    calls,     \* tool calls started so far
    pc,        \* where each caller is in handle_tool_call
    req,       \* the ToolCallRequest each caller last made
    frame,     \* the handler the caller's match arm awaits, with its arguments
    attempt,   \* get_with_retry: iterations of the for loop started
    last_err,  \* get_with_retry: last_err
    retried,   \* what get_with_retry returned: "none" yet, "ok" or "err"
    inflight,  \* the number of the request the caller awaits, 0 when none
    held,      \* the deserialized value a bulk operation is about to cache
    resp,      \* what handle_tool_call returned to the runtime
    log,       \* the call's effects and the network's answers, in order
    seen,      \* the age in ticks of the entry the call's cache read found
    app        \* a handler's computation on a fetched value: input and result

vars == << cfg, now, lock, cache, sent, calls, pc, req, frame, attempt,
           last_err, retried, inflight, held, resp, log, seen, app >>

NoRequest == [name |-> "", arguments |-> None]
NoFrame == Handler("", "none", "", None, None)
NoResponse == [kind |-> "none"]
\* seen: -2 before any read, -1 when the key was absent, else the entry's age.
Unread == -2
Absent == -1
\* app when no handler computation is being followed.
NoApplication == [fn |-> "none"]

\* RsshubClientConfig: every retry count; the namespaces TTL is 0 seconds and
\* the radar-rules TTL MaxTtl seconds, so each bound of a TTL is met by one of
\* the two bulk operations and the two TTLs differ.
Configs == { [retries |-> r, namespaces_ttl_secs |-> 0, radar_rules_ttl_secs |-> MaxTtl]
             : r \in 0..MaxRetries }

\* RsshubApiClient::new and RSSHubService::with_config: an empty cache, a free
\* lock, idle callers.
Init ==
    /\ cfg \in Configs
    /\ now = 0
    /\ lock = 0
    /\ cache = << >>
    /\ sent = 0
    /\ calls = 0
    /\ pc = [p \in Procs |-> "idle"]
    /\ req = [p \in Procs |-> NoRequest]
    /\ frame = [p \in Procs |-> NoFrame]
    /\ attempt = [p \in Procs |-> 0]
    /\ last_err = [p \in Procs |-> None]
    /\ retried = [p \in Procs |-> "none"]
    /\ inflight = [p \in Procs |-> 0]
    /\ held = [p \in Procs |-> None]
    /\ resp = [p \in Procs |-> NoResponse]
    /\ log = [p \in Procs |-> << >>]
    /\ seen = [p \in Procs |-> Unread]
    /\ app = NoApplication

\* ------------------------------------------------------------- the cache

\* Instant::elapsed().as_secs(): whole seconds, the fraction dropped.
as_secs(ticks) == ticks \div TicksPerSec

\* The mutant of get_json: the TTL is never looked at.
get_json_ignoring_ttl(store, key, ttl_secs, t) ==
    IF key \in DOMAIN store THEN Some(store[key][1]) ELSE None

\* CacheStore::get_json at instant t.
get_json(store, key, ttl_secs, t) ==
    IF key \in DOMAIN store
    THEN IF as_secs(t - store[key][2]) <= ttl_secs THEN Some(store[key][1]) ELSE None
    ELSE None

\* The mutant of put_json: the store keeps one entry, the one written last.
put_json_evicting(store, key, v, t) == [k \in {key} |-> << v, t >>]

\* The mutant of put_json: an entry that is present is kept (or_insert).
put_json_if_absent(store, key, v, t) ==
    [k \in DOMAIN store \cup {key} |->
        IF k \in DOMAIN store THEN store[k] ELSE << v, t >>]

\* The mutant of put_json: the value of an entry that is present is replaced
\* and its instant kept.
put_json_keeping_instant(store, key, v, t) ==
    [k \in DOMAIN store \cup {key} |->
        IF k # key THEN store[k]
        ELSE IF k \in DOMAIN store THEN << v, store[k][2] >> ELSE << v, t >>]

\* CacheStore::put_json at instant t: HashMap::insert replaces the entry.
put_json(store, key, v, t) ==
    [k \in DOMAIN store \cup {key} |-> IF k = key THEN << v, t >> ELSE store[k]]

\* The TTL a bulk operation passes to get_json.
OpTtl(op) == IF op = "get_all_namespaces" THEN cfg.namespaces_ttl_secs
                                          ELSE cfg.radar_rules_ttl_secs

\* ----------------------------------------------------------- tool calls

\* The arguments each tool's match arm reads (for get_all_namespaces, whose arm
\* reads none, the format the other read tools take), and the values tried.
ArgKeys(name) ==
    CASE name = "get_all_namespaces" -> {"format"}
      [] name = "get_namespace" -> {"namespace", "format"}
      [] name = "search_namespaces" -> {"query"}
      [] name = "get_radar_rules" -> {"format"}
      [] name = "get_radar_rule" -> {"rule_name", "domain", "format"}
      [] name = "get_category" -> {"category", "format"}
      [] name = "get_feed" -> {"path", "format"}
      [] name = "search_routes" -> {"query", "namespace", "limit", "format"}
      [] name = "get_route_detail" -> {"namespace", "route_key", "format"}
      [] name = "suggest_route_keys" -> {"namespace", "partial", "limit"}
      [] name = "no_such_tool" -> {"namespace"}
      [] name = "GET_FEED" -> {"path"}
      [] OTHER -> {}

\* Names the match has no arm for (it compares the name as it is spelled).
UnknownNames == {"no_such_tool", "GET_FEED"}

ArgValues(key) ==
    CASE key = "format" -> {JStr("json")}
      [] key = "limit" -> {JNum(1)}
      [] key = "domain" -> {JStr("b"), JNum(7)}
      [] OTHER -> {JStr("a"), JNum(7)}

ArgMaps(name) ==
    UNION { { m \in [ks -> UNION { ArgValues(k) : k \in ks }] :
                \A k \in ks : m[k] \in ArgValues(k) } : ks \in SUBSET ArgKeys(name) }

\* Requests whose optional arguments are of another type than the arm reads
\* (as_str, as_u64), whose format is no "json" or is "json" in capitals, and
\* whose limit is outside the schema's range (1..200 and 1..50).
OptionalArgRequests ==
    { [name |-> "search_routes",
       arguments |-> Some([query |-> JStr("a"), namespace |-> JStr("a"), limit |-> l])]
        : l \in { JNum(0), JNum(201), JNum(-1), JStr("5") } }
    \cup { [name |-> "suggest_route_keys",
            arguments |-> Some([namespace |-> JStr("a"), partial |-> JStr("a"), limit |-> l])]
             : l \in { JNum(0), JNum(51), JStr("5") } }
    \cup { [name |-> "get_feed", arguments |-> Some([path |-> JStr("a"), format |-> f])]
             : f \in { JNum(7), JStr("text"), JStr("JSON") } }
    \cup { [name |-> "get_route_detail",
            arguments |-> Some([namespace |-> JStr("a"), route_key |-> JStr("a"),
                                format |-> JNum(7)])] }

\* Every request of the model: each name with no arguments object and with
\* every object over the keys its arm reads, and the requests above.
AllRequests ==
    UNION { { [name |-> n, arguments |-> None] }
            \cup { [name |-> n, arguments |-> Some(m)] : m \in ArgMaps(n) }
          : n \in ListedTools \cup UnknownNames }
    \cup OptionalArgRequests

\* The requests concurrent callers make: the two bulk tools, a targeted one,
\* a call without its arguments and an unknown name.
SharedRequests ==
    { [name |-> "get_all_namespaces", arguments |-> None],
      [name |-> "get_radar_rules", arguments |-> None],
      [name |-> "get_namespace", arguments |-> Some([namespace |-> JStr("a")])],
      [name |-> "get_namespace", arguments |-> None],
      [name |-> "no_such_tool", arguments |-> None] }

\* A caller runs without interruption from one suspension to the next, so a
\* step ends in one of these ways.  Each fixes pc, resp, retried, attempt,
\* inflight, sent and log for caller p; lg is the call's log up to there.

\* The mutant of the dispatcher's statelessness: the service counts the
\* session's calls and answers only the first.
ReturnsCountingCalls(p, h, r, lg) ==
    /\ pc' = [pc EXCEPT ![p] = "idle"]
    /\ resp' = [resp EXCEPT ![p] =
                   IF calls > 1 THEN ToolCallResponse(Err("call limit reached"))
                                ELSE ToolCallResponse(HandlerResult(h, r))]
    /\ log' = [log EXCEPT ![p] = lg]

\* handle_tool_call returns r's response: the caller is idle again.
Returns(p, h, r, lg) ==
    /\ pc' = [pc EXCEPT ![p] = "idle"]
    /\ resp' = [resp EXCEPT ![p] = ToolCallResponse(HandlerResult(h, r))]
    /\ log' = [log EXCEPT ![p] = lg]

\* The mutant of the loop bound: 0..=retries.
loop_continues_inclusive(i, retries) == i <= retries

\* The mutant of the loop: its body runs once before the bound is tested.
loop_at_least_once(i, retries) == i = 0 \/ i < retries

\* for _ in 0..self.retries, asked with i iterations started.
loop_continues(i, retries) == i < retries

\* get_with_retry at the head of its loop with i iterations started: the next
\* client.get(url).send().await, or the Err after the loop.
LoopHead(p, h, i, lg) ==
    IF loop_continues(i, cfg.retries)
    THEN /\ sent' = sent + 1
         /\ attempt' = [attempt EXCEPT ![p] = i + 1]
         /\ inflight' = [inflight EXCEPT ![p] = sent + 1]
         /\ log' = [log EXCEPT ![p] = Append(lg, "request")]
         /\ pc' = [pc EXCEPT ![p] = "inflight"]
         /\ retried' = [retried EXCEPT ![p] = "none"]
         /\ resp' = [resp EXCEPT ![p] = NoResponse]
    ELSE /\ sent' = sent
         /\ attempt' = [attempt EXCEPT ![p] = i]
         /\ inflight' = [inflight EXCEPT ![p] = 0]
         /\ retried' = [retried EXCEPT ![p] = "err"]
         /\ Returns(p, h, Err("HTTP GET failed after retries: "
                              \o (IF last_err[p].some THEN last_err[p].val ELSE "")), lg)

\* The mutant of the early return: the arm's validation fails only after a
\* request of the handler went out.
RejectedAfterRequest(p, d) ==
    /\ frame' = [frame EXCEPT ![p] = NoFrame]
    /\ resp' = [resp EXCEPT ![p] = d]
    /\ log' = [log EXCEPT ![p] = << "request" >>]
    /\ attempt' = [attempt EXCEPT ![p] = 0]
    /\ retried' = [retried EXCEPT ![p] = "none"]
    /\ inflight' = [inflight EXCEPT ![p] = 0]
    /\ sent' = sent + 1
    /\ pc' = pc

\* The ? of a failed validation and the return of the catch-all arm:
\* handle_tool_call returns the error d at once, no handler awaited.
Rejected(p, d) ==
    /\ frame' = [frame EXCEPT ![p] = NoFrame]
    /\ resp' = [resp EXCEPT ![p] = d]
    /\ log' = [log EXCEPT ![p] = << >>]
    /\ attempt' = [attempt EXCEPT ![p] = 0]
    /\ retried' = [retried EXCEPT ![p] = "none"]
    /\ inflight' = [inflight EXCEPT ![p] = 0]
    /\ UNCHANGED << pc, sent >>

\* handle_tool_call up to its first suspension: the match on the name, the
\* validation of the arm, and the handler up to the lock of the cache check
\* (bulk operations) or the first request (targeted ones).
HandleToolCall(p, r) ==
    /\ pc[p] = "idle"
    /\ resp[p] = NoResponse
    /\ calls < MaxCalls
    /\ calls' = calls + 1
    /\ req' = [req EXCEPT ![p] = r]
    /\ last_err' = [last_err EXCEPT ![p] = None]
    /\ held' = [held EXCEPT ![p] = None]
    /\ seen' = [seen EXCEPT ![p] = Unread]
    /\ LET d == Dispatch(r.name, r.arguments) IN
       IF d.kind = "mcp_error"
       THEN Rejected(p, d)
       ELSE /\ frame' = [frame EXCEPT ![p] = d]
            /\ IF d.op = "none"
               THEN /\ resp' = [resp EXCEPT ![p] = ToolCallResponse(Ok(CategoriesText))]
                    /\ log' = [log EXCEPT ![p] = << >>]
                    /\ attempt' = [attempt EXCEPT ![p] = 0]
                    /\ retried' = [retried EXCEPT ![p] = "none"]
                    /\ inflight' = [inflight EXCEPT ![p] = 0]
                    /\ UNCHANGED << pc, sent >>
               ELSE IF d.op \in BulkOps
               THEN /\ resp' = [resp EXCEPT ![p] = NoResponse]
                    /\ log' = [log EXCEPT ![p] = << >>]
                    /\ attempt' = [attempt EXCEPT ![p] = 0]
                    /\ retried' = [retried EXCEPT ![p] = "none"]
                    /\ inflight' = [inflight EXCEPT ![p] = 0]
                    /\ pc' = [pc EXCEPT ![p] = "lock_r"]
                    /\ sent' = sent
               ELSE LoopHead(p, d, 0, << >>)
    /\ UNCHANGED << app, cfg, now, lock, cache >>

\* A tools/list request: list_tools awaits nothing and returns at once.
ListTools(p, request) ==
    /\ pc[p] = "idle"
    /\ resp[p] = NoResponse
    /\ calls < MaxCalls
    /\ calls' = calls + 1
    /\ resp' = [resp EXCEPT ![p] = [kind |-> "tools", request |-> request,
                                    result |-> list_tools(request)]]
    /\ UNCHANGED << app, cfg, now, lock, cache, sent, pc, req, frame, attempt, last_err,
                    retried, inflight, held, log, seen >>

\* ------------------------------------------------------ client operations

\* self.cache.lock() of the cache check: the caller waits for the mutex.
LockForRead(p) ==
    /\ pc[p] = "lock_r"
    /\ lock = 0
    /\ lock' = p
    /\ pc' = [pc EXCEPT ![p] = "read"]
    /\ UNCHANGED << app, cfg, now, cache, sent, calls, req, frame, attempt, last_err,
                    retried, inflight, held, resp, log, seen >>

\* The mutant of the guard's scope: the guard outlives the if-let statement.
GuardKept(p) == p

\* The guard of the cache check is a temporary of the if-let statement: it is
\* dropped where the statement ends, before get_with_retry is called.
GuardAfterRead(p) == 0

\* The mutant of the cache check: a bulk operation goes to the network anyway.
cache_check_skipped(op) == None

\* The cache check of a bulk operation, made with the lock held.
cache_check(op) == get_json(cache, OpKey(op), OpTtl(op), now)

\* if let Some(v) = ...get_json(key, ttl) { return Ok(from_value(v)?) }, and on
\* a miss get_with_retry up to its first request.
ReadCache(p) ==
    LET op == frame[p].op
        v == cache_check(op)
    IN /\ pc[p] = "read"
       /\ seen' = [seen EXCEPT ![p] = IF OpKey(op) \in DOMAIN cache
                                      THEN now - cache[OpKey(op)][2] ELSE Absent]
       /\ IF v.some
          THEN /\ lock' = 0
               /\ Returns(p, frame[p], Ok(from_value(OpType(op), v.val)), << "hit" >>)
               /\ UNCHANGED << sent, attempt, retried, inflight >>
          ELSE /\ lock' = GuardAfterRead(p)
               /\ LoopHead(p, frame[p], 0, << "miss" >>)
       /\ UNCHANGED << app, cfg, now, cache, calls, req, frame, last_err, held >>

\* The mutant of the match on send(): a non-2xx response is retried as well.
is_err_or_status(o) == o \in {"transport", "non2xx"}

\* match self.client.get(url).send().await: Err(e), as against Ok(resp).
is_err(o) == o = "transport"

\* The mutant of get_feed's parse: a body that is no feed is an error, as a
\* body that does not match the schema is for the other operations.
BodyFeedStrict(op, o, id) ==
    CASE o = "unreadable" -> Err(BodyError)
      [] o = "mismatch" -> Err(DecodeError)
      [] OTHER -> Ok(Typed(OpType(op), id))

\* The mutant of the schema check: a body that does not match the schema is
\* taken for a value all the same.
BodyMismatchAccepted(op, o, id) ==
    CASE o = "unreadable" -> Err(BodyError)
      [] OTHER -> Ok(Typed(OpType(op), id))

\* The operation's value of a 2xx body: response.json() against the schema;
\* for get_feed response.text() and parse_rss_content, which falls back to the
\* raw document when the body is no feed.
Body(op, o, id) ==
    CASE o = "unreadable" -> Err(BodyError)
      [] o = "mismatch" /\ op # "get_feed" -> Err(DecodeError)
      [] OTHER -> Ok(Typed(OpType(op), id))

\* The mutant of the error kept: the first failure's cause is kept
\* (get_or_insert).
record_first_error(prev, e) == IF prev.some THEN prev ELSE Some(e)

\* Err(e) => { last_err = Some(e); ... }: the cause kept is the latest.
record_error(prev, e) == Some(e)

\* The mutant of the Err arm: no backoff after the failure of the last
\* attempt, the loop's end is reached at once.
ErrArmNoLastSleep(p, o) ==
    /\ last_err' = [last_err EXCEPT ![p] = record_error(@, TransportError(inflight[p]))]
    /\ IF attempt[p] < cfg.retries
       THEN /\ log' = [log EXCEPT ![p] = @ \o << o, "sleep" >>]
            /\ pc' = [pc EXCEPT ![p] = "sleep"]
            /\ UNCHANGED << retried, held, resp >>
       ELSE /\ retried' = [retried EXCEPT ![p] = "err"]
            /\ held' = held
            /\ Returns(p, frame[p],
                       Err("HTTP GET failed after retries: " \o TransportError(inflight[p])),
                       Append(log[p], o))

\* Err(e) => { last_err = Some(e); tokio::time::sleep(backoff).await; }: the
\* cause is kept and the caller sleeps, after the last attempt as after any.
ErrArm(p, o) ==
    /\ last_err' = [last_err EXCEPT ![p] = record_error(@, TransportError(inflight[p]))]
    /\ log' = [log EXCEPT ![p] = @ \o << o, "sleep" >>]
    /\ pc' = [pc EXCEPT ![p] = "sleep"]
    /\ UNCHANGED << retried, held, resp >>

\* The network answers the request in flight with o; the caller runs on to its
\* next suspension: the backoff sleep, the lock of the cache write, or return.
Recv(p, o) ==
    LET op == frame[p].op
        id == inflight[p]
        body == Body(op, o, id)
    IN /\ pc[p] = "inflight"
       /\ inflight' = [inflight EXCEPT ![p] = 0]
       /\ IF is_err(o)
          THEN ErrArm(p, o)
          ELSE /\ retried' = [retried EXCEPT ![p] = "ok"]
               /\ last_err' = last_err
               /\ IF o = "non2xx"
                  THEN /\ Returns(p, frame[p], Err(StatusError(op, frame[p].param)),
                                  Append(log[p], o))
                       /\ held' = held
                  ELSE IF body.ok /\ op \in BulkOps
                  THEN /\ held' = [held EXCEPT ![p] = Some(body.val)]
                       /\ pc' = [pc EXCEPT ![p] = "lock_w"]
                       /\ log' = [log EXCEPT ![p] = Append(@, o)]
                       /\ resp' = resp
                  ELSE /\ Returns(p, frame[p], body, Append(log[p], o))
                       /\ held' = held
       /\ UNCHANGED << app, cfg, now, lock, cache, sent, calls, req, frame, attempt, seen >>

\* tokio::time::sleep(retry_backoff_ms) is over; the loop goes round.
Wake(p) ==
    /\ pc[p] = "sleep"
    /\ LoopHead(p, frame[p], attempt[p], log[p])
    /\ UNCHANGED << app, cfg, now, lock, cache, calls, req, frame, last_err, held, seen >>

\* self.cache.lock() of the cache write.
LockForWrite(p) ==
    /\ pc[p] = "lock_w"
    /\ lock = 0
    /\ lock' = p
    /\ pc' = [pc EXCEPT ![p] = "write"]
    /\ UNCHANGED << app, cfg, now, cache, sent, calls, req, frame, attempt, last_err,
                    retried, inflight, held, resp, log, seen >>

\* The mutant of the write's guard: the guard is leaked, the mutex stays
\* locked after the write.
WriteCacheLeakingGuard(p) ==
    /\ pc[p] = "write"
    /\ cache' = put_json(cache, OpKey(frame[p].op), to_value(held[p].val), now)
    /\ lock' = lock
    /\ Returns(p, frame[p], Ok(held[p].val), Append(log[p], "put"))
    /\ UNCHANGED << app, cfg, now, sent, calls, req, frame, attempt, last_err,
                    retried, inflight, held, seen >>

\* .put_json(key, &to_value(&routes)?) with the lock held, then Ok(routes).
WriteCache(p) ==
    /\ pc[p] = "write"
    /\ cache' = put_json(cache, OpKey(frame[p].op), to_value(held[p].val), now)
    /\ lock' = 0
    /\ Returns(p, frame[p], Ok(held[p].val), Append(log[p], "put"))
    /\ UNCHANGED << app, cfg, now, sent, calls, req, frame, attempt, last_err,
                    retried, inflight, held, seen >>

\* The runtime sends the response to the peer; the task of the call ends and
\* nothing of the call is left.
Respond(p) ==
    /\ pc[p] = "idle"
    /\ resp[p] # NoResponse
    /\ req' = [req EXCEPT ![p] = NoRequest]
    /\ frame' = [frame EXCEPT ![p] = NoFrame]
    /\ attempt' = [attempt EXCEPT ![p] = 0]
    /\ last_err' = [last_err EXCEPT ![p] = None]
    /\ retried' = [retried EXCEPT ![p] = "none"]
    /\ inflight' = [inflight EXCEPT ![p] = 0]
    /\ held' = [held EXCEPT ![p] = None]
    /\ resp' = [resp EXCEPT ![p] = NoResponse]
    /\ log' = [log EXCEPT ![p] = << >>]
    /\ seen' = [seen EXCEPT ![p] = Unread]
    /\ UNCHANGED << app, cfg, now, lock, cache, sent, calls, pc >>

\* Time passes.
Tick ==
    /\ now < MaxTime
    /\ now' = now + 1
    /\ UNCHANGED << app, cfg, lock, cache, sent, calls, pc, req, frame, attempt, last_err,
                    retried, inflight, held, resp, log, seen >>

\* One step of caller p's call other than its start.
Step(p) ==
    \/ LockForRead(p)
    \/ ReadCache(p)
    \/ \E o \in Outcomes : Recv(p, o)
    \/ Wake(p)
    \/ LockForWrite(p)
    \/ WriteCache(p)
    \/ Respond(p)

\* Concurrent callers on one shared service.
Next ==
    \/ \E p \in Procs : \E r \in SharedRequests : HandleToolCall(p, r)
    \/ \E p \in Procs : Step(p)
    \/ Tick

Spec == Init /\ [][Next]_vars

\* One caller, every request of the model.
NextTool ==
    \/ \E r \in AllRequests : HandleToolCall(1, r)
    \/ \E request \in ListToolsRequests : ListTools(1, request)
    \/ Step(1)
    \/ Tick

SpecTool == Init /\ [][NextTool]_vars

\* ---------------------------------- the handlers' work on a fetched value

\* Bounds of the values the handlers are applied to.
MaxRoutes == 2
MaxLimit == 2
MaxItems == 2

\* limit.unwrap_or(20) of handle_search_routes, limit.unwrap_or(10) of
\* handle_suggest_route_keys.
DefaultSearchLimit == 20
DefaultSuggestLimit == 10

\* Option::unwrap_or
unwrap_or(o, d) == IF o.some THEN o.val ELSE d

\* Route keys, names, descriptions, examples, queries and namespace keys are
\* sequences of characters.
LowerChar(c) == CASE c = "A" -> "a" [] c = "B" -> "b" [] OTHER -> c

\* str::to_lowercase, str::contains, str::starts_with
to_lowercase(s) == [i \in 1..Len(s) |-> LowerChar(s[i])]
contains(s, q) == \E i \in 0..(Len(s) - Len(q)) : SubSeq(s, i + 1, i + Len(q)) = q
starts_with(s, q) == Len(q) <= Len(s) /\ SubSeq(s, 1, Len(q)) = q

\* char::len_utf8: the bytes of a character; "U+00E9" (e with acute accent)
\* stands for a character encoded in two bytes, every other one is ASCII.
len_utf8(c) == IF c = "U+00E9" THEN 2 ELSE 1

\* str::len: the length of a string in bytes.
RECURSIVE len(_)
len(s) == IF s = << >> THEN 0 ELSE len_utf8(s[1]) + len(Tail(s))

\* The mutant of the closure: an absent description or example matches
\* (unwrap_or(true)).
matches_absent_counts(q, key, details) ==
    LET key_m == contains(to_lowercase(key), q)
        name_m == contains(to_lowercase(details.name), q)
        desc_m == IF details.description.some
                  THEN contains(to_lowercase(details.description.val), q) ELSE TRUE
        ex_m == IF details.example.some
                THEN contains(to_lowercase(details.example.val), q) ELSE TRUE
    IN key_m \/ name_m \/ desc_m \/ ex_m

\* The mutant of the closure: only the key is looked at.
matches_key_only(q, key, details) == contains(to_lowercase(key), q)

\* The closure matches of handle_search_routes; q is the lower-cased query.
matches(q, key, details) ==
    LET key_m == contains(to_lowercase(key), q)
        name_m == contains(to_lowercase(details.name), q)
        desc_m == IF details.description.some
                  THEN contains(to_lowercase(details.description.val), q) ELSE FALSE
        ex_m == IF details.example.some
                THEN contains(to_lowercase(details.example.val), q) ELSE FALSE
    IN key_m \/ name_m \/ desc_m \/ ex_m

\* The json!({...}) pushed for a matching route.
Hit(ns, key, details) ==
    [namespace |-> ns, route_key |-> key, name |-> details.name,
     description |-> details.description, example |-> details.example]

\* for (key, details) in routes.iter(), from the i-th entry on: the hits at the
\* loop's end and whether it ended by its break.
RECURSIVE for_routes(_, _, _, _, _, _)
for_routes(ns, routes, i, hits, q, limit) ==
    IF i > Len(routes) THEN [hits |-> hits, broke |-> FALSE]
    ELSE IF matches(q, routes[i].key, routes[i].details)
    THEN LET pushed == Append(hits, Hit(ns, routes[i].key, routes[i].details))
         IN IF Len(pushed) >= limit
            THEN [hits |-> pushed, broke |-> TRUE]
            ELSE for_routes(ns, routes, i + 1, pushed, q, limit)
    ELSE for_routes(ns, routes, i + 1, hits, q, limit)

\* 'outer: for (ns, routes_map) in all.iter(), from the j-th entry on.
RECURSIVE for_namespaces(_, _, _, _, _)
for_namespaces(all, j, hits, q, limit) ==
    IF j > Len(all) THEN hits
    ELSE IF all[j].value.routes.some
    THEN LET inner == for_routes(all[j].key, all[j].value.routes.val, 1, hits, q, limit)
         IN IF inner.broke THEN inner.hits
            ELSE for_namespaces(all, j + 1, inner.hits, q, limit)
    ELSE for_namespaces(all, j + 1, hits, q, limit)

\* One line of the text form of a hit.
HitLine(h) ==
    [ns |-> h.namespace, key |-> h.route_key, name |-> h.name,
     desc |-> unwrap_or(h.description, << >>)]

\* handle_search_routes after its fetch returned fetched: a RoutesMap when a
\* namespace was given, the whole catalog otherwise.  The result keeps the
\* hits next to the text made of them.
handle_search_routes(query, namespace, limit, format, fetched) ==
    LET q == to_lowercase(query)
        lim == unwrap_or(limit, DefaultSearchLimit)
        hits == IF namespace.some
                THEN IF fetched.routes.some
                     THEN for_routes(namespace.val, fetched.routes.val, 1, << >>, q, lim).hits
                     ELSE << >>
                ELSE for_namespaces(fetched, 1, << >>, q, lim)
    IN [hits |-> hits,
        text |-> IF wants_json(format) THEN [form |-> "json", value |-> hits]
                 ELSE IF hits = << >> THEN [form |-> "no_route", query |-> query]
                 ELSE [form |-> "found", count |-> Len(hits), limit |-> lim,
                       lines |-> [i \in 1..Len(hits) |-> HitLine(hits[i])]]]

\* The mutant of the sort key: the length difference is left out.
suggest_key_without_length(k, p) ==
    LET lk == to_lowercase(k)
    IN << IF contains(lk, p) THEN 0 ELSE 1, IF starts_with(lk, p) THEN 0 ELSE 1, 0 >>

\* The key of sort_by_key in handle_suggest_route_keys; p is the lower-cased
\* partial.
suggest_key(k, p) ==
    LET lk == to_lowercase(k)
        d == len(lk) - len(p)
    IN << IF contains(lk, p) THEN 0 ELSE 1, IF starts_with(lk, p) THEN 0 ELSE 1,
          IF d < 0 THEN -d ELSE d >>

\* The mutant of the comparison: a < b, with which the sort puts a key before
\* the keys of equal rank that came before it.
tuple_lt(a, b) ==
    \/ a[1] < b[1]
    \/ a[1] = b[1] /\ a[2] < b[2]
    \/ a[1] = b[1] /\ a[2] = b[2] /\ a[3] < b[3]

\* Ord of the key tuples: a <= b.
tuple_le(a, b) ==
    \/ a[1] < b[1]
    \/ a[1] = b[1] /\ a[2] < b[2]
    \/ a[1] = b[1] /\ a[2] = b[2] /\ a[3] <= b[3]

\* slice::sort_by_key, a stable sort: the last element goes behind every
\* element of the sorted rest whose key is not greater.
RECURSIVE sort_by_key(_, _)
sort_by_key(keys, p) ==
    IF keys = << >> THEN << >>
    ELSE LET rest == sort_by_key(SubSeq(keys, 1, Len(keys) - 1), p)
             x == keys[Len(keys)]
             pos == Cardinality({ i \in 1..Len(rest) :
                                    tuple_le(suggest_key(rest[i], p), suggest_key(x, p)) })
         IN SubSeq(rest, 1, pos) \o << x >> \o SubSeq(rest, pos + 1, Len(rest))

\* Iterator::take
take(s, n) == SubSeq(s, 1, IF n < Len(s) THEN n ELSE Len(s))

\* handle_suggest_route_keys after its fetch returned routes_map.
handle_suggest_route_keys(namespace, partial, limit, routes_map) ==
    LET lim == unwrap_or(limit, DefaultSuggestLimit)
    IN IF ~routes_map.routes.some
       THEN [form |-> "no_routes", namespace |-> namespace]
       ELSE LET routes == routes_map.routes.val
                p == to_lowercase(partial)
                keys == [i \in 1..Len(routes) |-> routes[i].key]
                list == take(sort_by_key(keys, p), lim)
            IN [form |-> "suggested", top |-> Len(list), list |-> list]

\* The mutant of the filter: the key is compared as it is spelled.
namespace_filter_case_sensitive(key, search_lower) == contains(key, search_lower)

\* The filter closure of handle_search_namespaces.
namespace_filter(key, search_lower) == contains(to_lowercase(key), search_lower)

\* handle_search_namespaces after its fetch returned all_namespaces.
handle_search_namespaces(query, all_namespaces) ==
    LET keys == [i \in 1..Len(all_namespaces) |-> all_namespaces[i].key]
    IN IF query.some
       THEN LET search_lower == to_lowercase(query.val)
                filtered == SelectSeq(keys, LAMBDA k : namespace_filter(k, search_lower))
            IN IF filtered = << >>
               THEN [form |-> "none_matching", query |-> query.val, available |-> keys]
               ELSE [form |-> "matching", query |-> query.val, lines |-> filtered]
       ELSE [form |-> "available", total |-> Len(keys), list |-> keys]

\* rss::Channel::read_from: the channel of a body that is an RSS document.
read_from(content) ==
    IF content.kind = "rss" THEN Ok(content.channel) ELSE Err("not an RSS channel")

\* The FeedItem made of an item of the channel.
FeedItem(it) ==
    [title |-> unwrap_or(it.title, ""), description |-> unwrap_or(it.description, ""),
     link |-> unwrap_or(it.link, ""), pub_date |-> it.pub_date, author |-> it.author,
     categories |-> it.categories]

\* The mutant of the parsed path: the body is not attached.
FromChannelWithoutRaw(channel, content) ==
    [title |-> channel.title, description |-> channel.description,
     items |-> [i \in 1..Len(channel.items) |-> FeedItem(channel.items[i])],
     raw_content |-> None]

\* The FeedResponse of the parsed path of parse_rss_content.
FromChannel(channel, content) ==
    [title |-> channel.title, description |-> channel.description,
     items |-> [i \in 1..Len(channel.items) |-> FeedItem(channel.items[i])],
     raw_content |-> Some(content)]

\* The mutant of the fallback: the body is not attached.
FallbackWithoutRaw(content) ==
    [title |-> "RSS Feed", description |-> "RSS feed content", items |-> << >>,
     raw_content |-> None]

\* The FeedResponse of the fallback of parse_rss_content.
Fallback(content) ==
    [title |-> "RSS Feed", description |-> "RSS feed content", items |-> << >>,
     raw_content |-> Some(content)]

\* RsshubApiClient::parse_rss_content
parse_rss_content(content) ==
    IF read_from(content).ok
    THEN Ok(FromChannel(read_from(content).val, content))
    ELSE Ok(Fallback(content))

\* ---- the values the handlers are applied to

\* Sequences without repetition of at most n elements of S: the orders in
\* which a HashMap of those entries may be iterated.
DistinctSeqs(S, n) ==
    UNION { { s \in [1..m -> S] : \A i, j \in 1..m : i # j => s[i] # s[j] } : m \in 0..n }

\* The routes catalogs are made of.
RoutePool ==
    { [key |-> << "A", "b" >>,
       details |-> [name |-> << "c" >>, description |-> None, example |-> None]],
      [key |-> << "c" >>,
       details |-> [name |-> << "b", "A" >>, description |-> Some(<< "d" >>),
                    example |-> Some(<< "a", "a" >>)]],
      [key |-> << "d", "c", "d" >>,
       details |-> [name |-> << "d" >>, description |-> Some(<< "B" >>), example |-> None]],
      [key |-> << "b", "c", "a" >>,
       details |-> [name |-> << "e" >>, description |-> None,
                    example |-> Some(<< "A", "b" >>)]] }

\* RoutesMap: routes absent, or a map of at most MaxRoutes routes of pool.
RoutesMapsOf(pool) ==
    { [routes |-> None] } \cup { [routes |-> Some(s)] : s \in DistinctSeqs(pool, MaxRoutes) }

\* The values get_namespace returns, and the values of the whole catalog's
\* namespaces (made of three of the routes).
RoutesMaps == RoutesMapsOf(RoutePool)
CatalogRoutesMaps == RoutesMapsOf({ r \in RoutePool : r.details.name # << "e" >> })

\* NamespaceResp: a map from the given keys to values of maps.
NamespaceResps(keys, maps) ==
    UNION { { [i \in 1..Len(ks) |-> [key |-> ks[i], value |-> m[i]]] :
                m \in [1..Len(ks) -> maps] }
          : ks \in DistinctSeqs(keys, Cardinality(keys)) }

SearchNamespaceKeys == { << "n" >>, << "N", "s" >> }
CatalogKeys == { << "A", "b" >>, << "c" >>, << "b", "A" >> }

\* Queries and partials.
Queries == { << >>, << "a" >>, << "A" >>, << "b" >>, << "c" >>, << "a", "a" >>,
             << "B", "a" >>, << "x" >> }

\* The partials and the maps suggest_route_keys is given: the queries and the
\* routes above, and a partial and a key of one two-byte character.
Partials == Queries \cup { << "U+00E9" >> }
SuggestRoutesMaps ==
    RoutesMapsOf(RoutePool
                 \cup { [key |-> << "U+00E9" >>,
                         details |-> [name |-> << "e" >>, description |-> None,
                                      example |-> None]] })

\* limit as the dispatcher passes it on: absent, or an unsigned integer.
Limits == { None } \cup { Some(n) : n \in 0..MaxLimit }
Formats == { None, Some("json") }

\* The items and the bodies parse_rss_content is given.
ItemPool ==
    { [title |-> Some("t"), description |-> Some("d"), link |-> Some("l"),
       pub_date |-> Some("Mon"), author |-> None, categories |-> << "k" >>],
      [title |-> None, description |-> None, link |-> None,
       pub_date |-> None, author |-> Some("me"), categories |-> << >>] }
Channels ==
    { [title |-> t, description |-> d, items |-> s] :
        t \in {"", "RSS Feed", "T"}, d \in {"", "D"},
        s \in UNION { [1..m -> ItemPool] : m \in 0..MaxItems } }
Contents ==
    { [kind |-> "rss", channel |-> c] : c \in Channels }
    \cup { [kind |-> "other", text |-> t] : t \in {"", "<html></html>", "<feed/>"} }

\* ------------------------------------- the catalog as a serde_json::Value

\* The variant fields hold lists of at most MaxVariants elements.
MaxVariants == 2

\* serde_json::Value: null, a boolean, a string, an array, an object.
JsonNull == [tag |-> "null"]
JsonBool(b) == [tag |-> "bool", val |-> b]
JsonString(s) == [tag |-> "string", val |-> s]
JsonArray(xs) == [tag |-> "array", val |-> xs]
JsonObject(m) == [tag |-> "object", val |-> m]

\* A value of an enum: its variant (Single or Multiple of MultiType and
\* RadarType, Bool or List of RequireConfig) and the variant's content.
Variant(variant, x) == variant :> x
is_variant(e, variant) == variant \in DOMAIN e

\* The mutant of MultiType's Serialize: a single value is written as a list
\* of one.
MultiType_serialize_as_list(m) ==
    IF is_variant(m, "Single") THEN JsonArray(<< JsonString(m.Single) >>)
    ELSE JsonArray([i \in DOMAIN m.Multiple |-> JsonString(m.Multiple[i])])

\* #[serde(untagged)] Serialize of MultiType: the variant's content, a string
\* or an array of strings, without a tag.
MultiType_serialize(m) ==
    IF is_variant(m, "Single") THEN JsonString(m.Single)
    ELSE JsonArray([i \in DOMAIN m.Multiple |-> JsonString(m.Multiple[i])])

\* Serialize of a value x of type T, as derived: T is the type's name followed
\* by its parameter, as in << "Option", << "String" >> >>.  Maps are records;
\* of Features and RouteDetails the fields that hold a variant are kept;
\* RulesInfo writes its name as "_name" and flattens its sections into the
\* same map, a later entry replacing an earlier one of the same key.
RECURSIVE serialize(_, _)
serialize(T, x) ==
    CASE T[1] = "String" -> JsonString(x)
      [] T[1] = "bool" -> JsonBool(x)
      [] T[1] = "Option" -> IF x.some THEN serialize(T[2], x.val) ELSE JsonNull
      [] T[1] = "Vec" -> JsonArray([i \in DOMAIN x |-> serialize(T[2], x[i])])
      [] T[1] = "HashMap" -> JsonObject([k \in DOMAIN x |-> serialize(T[2], x[k])])
      [] T[1] = "MultiType" -> MultiType_serialize(x)
      [] T[1] = "RadarItem" ->
           JsonObject([source |-> serialize(<< "MultiType" >>, x.source),
                       target |-> serialize(<< "Option", << "String" >> >>, x.target),
                       title |-> serialize(<< "Option", << "String" >> >>, x.title)])
      [] T[1] = "RadarType" ->
           IF is_variant(x, "Single") THEN serialize(<< "RadarItem" >>, x.Single)
           ELSE serialize(<< "Vec", << "RadarItem" >> >>, x.Multiple)
      [] T[1] = "ConfigDetail" ->
           JsonObject([name |-> serialize(<< "String" >>, x.name),
                       optional |-> serialize(<< "Option", << "bool" >> >>, x.optional),
                       description |->
                           serialize(<< "Option", << "String" >> >>, x.description)])
      [] T[1] = "RequireConfig" ->
           IF is_variant(x, "Bool") THEN serialize(<< "bool" >>, x.Bool)
           ELSE serialize(<< "Vec", << "ConfigDetail" >> >>, x.List)
      [] T[1] = "Features" ->
           JsonObject([requireConfig |->
               serialize(<< "Option", << "RequireConfig" >> >>, x.require_config)])
      [] T[1] = "RouteDetails" ->
           JsonObject([path |-> serialize(<< "MultiType" >>, x.path),
                       features |-> serialize(<< "Option", << "Features" >> >>, x.features),
                       radar |-> serialize(<< "Option", << "RadarType" >> >>, x.radar)])
      [] T[1] = "RoutesMap" ->
           JsonObject([routes |->
               serialize(<< "Option", << "HashMap", << "RouteDetails" >> >> >>, x.routes)])
      [] T[1] = "NamespaceResp" -> serialize(<< "HashMap", << "RoutesMap" >> >>, x)
      [] T[1] = "RouteInfo" ->
           JsonObject([title |-> serialize(<< "String" >>, x.title),
                       docs |-> serialize(<< "String" >>, x.docs),
                       source |-> serialize(<< "Vec", << "String" >> >>, x.source),
                       target |-> serialize(<< "String" >>, x.target)])
      [] T[1] = "RulesInfo" ->
           JsonObject([k \in {"_name"} \cup DOMAIN x.sections |->
               IF k \in DOMAIN x.sections
               THEN serialize(<< "Vec", << "RouteInfo" >> >>, x.sections[k])
               ELSE serialize(<< "String" >>, x.name)])
      [] T[1] = "RulesResp" -> serialize(<< "HashMap", << "RulesInfo" >> >>, x)

\* The field of a struct in the buffered content: by its name in a map, by
\* its position in a sequence no longer than the struct's fields.
Field(j, name, position, fields) ==
    CASE j.tag = "object" -> IF name \in DOMAIN j.val THEN Some(j.val[name]) ELSE None
      [] j.tag = "array" /\ Len(j.val) <= fields ->
           IF position <= Len(j.val) THEN Some(j.val[position]) ELSE None
      [] OTHER -> None

\* An Option field, or one with #[serde(default)], that is absent reads as null.
OrNull(o) == IF o.some THEN o.val ELSE JsonNull

\* Deserialize of type T from the value j, as derived: Ok of the value, or
\* Err.  An untagged enum tries its variants in their order; a struct reads
\* a map or a sequence, and its fields without a default are required.
RECURSIVE deserialize(_, _)
deserialize(T, j) ==
    CASE T[1] = "String" -> IF j.tag = "string" THEN Ok(j.val) ELSE Err("invalid type")
      [] T[1] = "bool" -> IF j.tag = "bool" THEN Ok(j.val) ELSE Err("invalid type")
      [] T[1] = "Option" ->
           IF j.tag = "null" THEN Ok(None)
           ELSE IF deserialize(T[2], j).ok THEN Ok(Some(deserialize(T[2], j).val))
           ELSE deserialize(T[2], j)
      [] T[1] = "Vec" ->
           IF j.tag = "array" /\ \A i \in DOMAIN j.val : deserialize(T[2], j.val[i]).ok
           THEN Ok([i \in DOMAIN j.val |-> deserialize(T[2], j.val[i]).val])
           ELSE Err("invalid type")
      [] T[1] = "HashMap" ->
           IF j.tag = "object" /\ \A k \in DOMAIN j.val : deserialize(T[2], j.val[k]).ok
           THEN Ok([k \in DOMAIN j.val |-> deserialize(T[2], j.val[k]).val])
           ELSE Err("invalid type")
      [] T[1] = "MultiType" ->
           IF deserialize(<< "String" >>, j).ok
           THEN Ok(Variant("Single", deserialize(<< "String" >>, j).val))
           ELSE IF deserialize(<< "Vec", << "String" >> >>, j).ok
           THEN Ok(Variant("Multiple", deserialize(<< "Vec", << "String" >> >>, j).val))
           ELSE Err("data did not match any variant of untagged enum MultiType")
      [] T[1] = "RadarItem" ->
           LET source == Field(j, "source", 1, 3)
               target == deserialize(<< "Option", << "String" >> >>,
                                     OrNull(Field(j, "target", 2, 3)))
               title == deserialize(<< "Option", << "String" >> >>,
                                    OrNull(Field(j, "title", 3, 3)))
           IN IF j.tag \in {"object", "array"} /\ source.some
                 /\ deserialize(<< "MultiType" >>, source.val).ok /\ target.ok /\ title.ok
              THEN Ok([source |-> deserialize(<< "MultiType" >>, source.val).val,
                       target |-> target.val, title |-> title.val])
              ELSE Err("invalid type")
      [] T[1] = "RadarType" ->
           IF deserialize(<< "RadarItem" >>, j).ok
           THEN Ok(Variant("Single", deserialize(<< "RadarItem" >>, j).val))
           ELSE IF deserialize(<< "Vec", << "RadarItem" >> >>, j).ok
           THEN Ok(Variant("Multiple", deserialize(<< "Vec", << "RadarItem" >> >>, j).val))
           ELSE Err("data did not match any variant of untagged enum RadarType")
      [] T[1] = "ConfigDetail" ->
           LET name == Field(j, "name", 1, 3)
               optional == deserialize(<< "Option", << "bool" >> >>,
                                       OrNull(Field(j, "optional", 2, 3)))
               description == deserialize(<< "Option", << "String" >> >>,
                                          OrNull(Field(j, "description", 3, 3)))
           IN IF j.tag \in {"object", "array"} /\ name.some
                 /\ deserialize(<< "String" >>, name.val).ok
                 /\ optional.ok /\ description.ok
              THEN Ok([name |-> deserialize(<< "String" >>, name.val).val,
                       optional |-> optional.val, description |-> description.val])
              ELSE Err("invalid type")
      [] T[1] = "RequireConfig" ->
           IF deserialize(<< "bool" >>, j).ok
           THEN Ok(Variant("Bool", deserialize(<< "bool" >>, j).val))
           ELSE IF deserialize(<< "Vec", << "ConfigDetail" >> >>, j).ok
           THEN Ok(Variant("List", deserialize(<< "Vec", << "ConfigDetail" >> >>, j).val))
           ELSE Err("data did not match any variant of untagged enum RequireConfig")
      [] T[1] = "Features" ->
           LET require_config == deserialize(<< "Option", << "RequireConfig" >> >>,
                                             OrNull(Field(j, "requireConfig", 1, 7)))
           IN IF j.tag \in {"object", "array"} /\ require_config.ok
              THEN Ok([require_config |-> require_config.val])
              ELSE Err("invalid type")
      [] T[1] = "RouteDetails" ->
           LET path == Field(j, "path", 1, 12)
               features == deserialize(<< "Option", << "Features" >> >>,
                                       OrNull(Field(j, "features", 9, 12)))
               radar == deserialize(<< "Option", << "RadarType" >> >>,
                                    OrNull(Field(j, "radar", 10, 12)))
           IN IF j.tag \in {"object", "array"} /\ path.some
                 /\ deserialize(<< "MultiType" >>, path.val).ok /\ features.ok /\ radar.ok
              THEN Ok([path |-> deserialize(<< "MultiType" >>, path.val).val,
                       features |-> features.val, radar |-> radar.val])
              ELSE Err("invalid type")
      [] T[1] = "RoutesMap" ->
           LET routes == deserialize(<< "Option", << "HashMap", << "RouteDetails" >> >> >>,
                                     OrNull(Field(j, "routes", 1, 1)))
           IN IF j.tag \in {"object", "array"} /\ routes.ok
              THEN Ok([routes |-> routes.val]) ELSE Err("invalid type")
      [] T[1] = "NamespaceResp" -> deserialize(<< "HashMap", << "RoutesMap" >> >>, j)
      [] T[1] = "RouteInfo" ->
           LET title == Field(j, "title", 1, 4)
               docs == Field(j, "docs", 2, 4)
               source == Field(j, "source", 3, 4)
               target == Field(j, "target", 4, 4)
           IN IF j.tag \in {"object", "array"}
                 /\ title.some /\ docs.some /\ source.some /\ target.some
                 /\ deserialize(<< "String" >>, title.val).ok
                 /\ deserialize(<< "String" >>, docs.val).ok
                 /\ deserialize(<< "Vec", << "String" >> >>, source.val).ok
                 /\ deserialize(<< "String" >>, target.val).ok
              THEN Ok([title |-> title.val.val, docs |-> docs.val.val,
                       source |-> deserialize(<< "Vec", << "String" >> >>, source.val).val,
                       target |-> target.val.val])
              ELSE Err("invalid type")
      [] T[1] = "RulesInfo" ->
           IF /\ j.tag = "object"
              /\ "_name" \in DOMAIN j.val
              /\ deserialize(<< "String" >>, j.val["_name"]).ok
              /\ \A k \in DOMAIN j.val \ {"_name"} :
                   deserialize(<< "Vec", << "RouteInfo" >> >>, j.val[k]).ok
           THEN Ok([name |-> j.val["_name"].val,
                    sections |-> [k \in DOMAIN j.val \ {"_name"} |->
                        deserialize(<< "Vec", << "RouteInfo" >> >>, j.val[k]).val]])
           ELSE Err("invalid type")
      [] T[1] = "RulesResp" -> deserialize(<< "HashMap", << "RulesInfo" >> >>, j)

\* A bulk operation that fetched routes (stores to_value(&routes), returns
\* them), then the same operation again at once, served from the slot with
\* from_value(v): what each returns.
fetch_then_hit(op, routes) ==
    LET store == put_json(cache, OpKey(op), serialize(<< OpType(op) >>, routes), now)
        v == get_json(store, OpKey(op), OpTtl(op), now)
    IN [fetched |-> Ok(routes),
        hit |-> IF v.some THEN deserialize(<< OpType(op) >>, v.val) ELSE Err("miss")]

\* Sequences of at most n elements of S.
SeqsUpTo(S, n) == UNION { [1..m -> S] : m \in 0..n }

\* The values of the variant fields.
MultiTypes ==
    { Variant("Single", "s") }
    \cup { Variant("Multiple", xs) : xs \in SeqsUpTo({"s"}, MaxVariants) }
RadarTypes ==
    LET items == { [source |-> s, target |-> t, title |-> u] :
                     s \in MultiTypes, t \in { None, Some("s") }, u \in { None, Some("s") } }
    IN { Variant("Single", r) : r \in items }
       \cup { Variant("Multiple", rs) : rs \in SeqsUpTo(items, MaxVariants) }
RequireConfigs ==
    LET details == { [name |-> "s", optional |-> o, description |-> None] :
                       o \in { None, Some(TRUE) } }
    IN { Variant("Bool", b) : b \in BOOLEAN }
       \cup { Variant("List", cs) : cs \in SeqsUpTo(details, MaxVariants) }

\* Route details: every radar with one path and no features, and every path
\* with every features and no radar.
RouteDetailsPool ==
    { [path |-> Variant("Single", "s"), features |-> None, radar |-> Some(r)] :
        r \in RadarTypes }
    \cup { [path |-> p, features |-> f, radar |-> None] :
             p \in MultiTypes,
             f \in { None, Some([require_config |-> None]) }
                   \cup { Some([require_config |-> Some(r)]) : r \in RequireConfigs } }

\* The catalogs a fetch returns: one namespace without routes or with one
\* route; one radar rule with no section or with one section of at most one
\* rule.
FetchedNamespaces ==
    { [n |-> [routes |-> None]] }
    \cup { [n |-> [routes |-> Some([r |-> d])]] : d \in RouteDetailsPool }
FetchedRules ==
    { [d |-> [name |-> "s", sections |-> << >>]] }
    \cup { [d |-> [name |-> "s", sections |-> [w |-> rs]]] :
             rs \in SeqsUpTo({ [title |-> "t", docs |-> "u",
                                source |-> << "s" >>, target |-> "v"] }, 1) }

\* ------------------------------------------------------- the feed's URL

\* Paths are sequences of at most MaxPath characters, "/" among them.
MaxPath == 3

\* str::strip_prefix(c): the rest after one leading c, None without one.
strip_prefix(s, c) == IF s # << >> /\ s[1] = c THEN Some(Tail(s)) ELSE None

\* The mutant of the strip: every leading separator goes (trim_start_matches).
RECURSIVE feed_path_trimmed(_)
feed_path_trimmed(path) ==
    IF path # << >> /\ path[1] = "/" THEN feed_path_trimmed(Tail(path)) ELSE path

\* let path = path.strip_prefix('/').unwrap_or(path);
feed_path(path) == unwrap_or(strip_prefix(path, "/"), path)

\* let url = format!("{}/{}", self.host, path);
feed_url(host, path) == host \o << "/" >> \o feed_path(path)

\* The hosts and paths get_feed is given.
Hosts == { << "h" >>, << "h", "/" >> }
Paths == SeqsUpTo({"/", "a"}, MaxPath)

\* A handler's computation: its inputs, and its result once it has run.
Application(fn, arg) == [fn |-> fn, arg |-> arg, out |-> None]

\* The computations followed, one disjunct for each handler and branch.
Applied ==
    \/ \E c \in Contents : app = Application("parse_rss_content", [content |-> c])
    \/ \E q \in Queries, ns \in SearchNamespaceKeys, l \in Limits, f \in Formats,
          m \in RoutesMaps :
          app = Application("handle_search_routes",
                            [query |-> q, namespace |-> Some(ns), limit |-> l,
                             format |-> f, fetched |-> m])
    \/ \E q \in Queries, l \in Limits, f \in Formats,
          all \in NamespaceResps(SearchNamespaceKeys, CatalogRoutesMaps) :
          app = Application("handle_search_routes",
                            [query |-> q, namespace |-> None, limit |-> l,
                             format |-> f, fetched |-> all])
    \/ \E ns \in SearchNamespaceKeys, q \in Partials, l \in Limits, m \in SuggestRoutesMaps :
          app = Application("handle_suggest_route_keys",
                            [namespace |-> ns, partial |-> q, limit |-> l, fetched |-> m])
    \/ \E q \in { None } \cup { Some(x) : x \in Queries },
          all \in NamespaceResps(CatalogKeys, { [routes |-> None] }) :
          app = Application("handle_search_namespaces", [query |-> q, fetched |-> all])
    \/ \E h \in Hosts, p \in Paths :
          app = Application("get_feed", [host |-> h, path |-> p])
    \/ \E x \in FetchedNamespaces :
          app = Application("fetch_then_hit", [op |-> "get_all_namespaces", fetched |-> x])
    \/ \E x \in FetchedRules :
          app = Application("fetch_then_hit", [op |-> "get_all_radar_rules", fetched |-> x])

\* Everything but app.
client_vars == << cfg, now, lock, cache, sent, calls, pc, req, frame, attempt,
                 last_err, retried, inflight, held, resp, log, seen >>

\* A fresh service and one computation about to run.
InitHandlers ==
    /\ Applied
    /\ cfg = [retries |-> MaxRetries, namespaces_ttl_secs |-> 0,
              radar_rules_ttl_secs |-> MaxTtl]
    /\ now = 0
    /\ lock = 0
    /\ cache = << >>
    /\ sent = 0
    /\ calls = 0
    /\ pc = [p \in Procs |-> "idle"]
    /\ req = [p \in Procs |-> NoRequest]
    /\ frame = [p \in Procs |-> NoFrame]
    /\ attempt = [p \in Procs |-> 0]
    /\ last_err = [p \in Procs |-> None]
    /\ retried = [p \in Procs |-> "none"]
    /\ inflight = [p \in Procs |-> 0]
    /\ held = [p \in Procs |-> None]
    /\ resp = [p \in Procs |-> NoResponse]
    /\ log = [p \in Procs |-> << >>]
    /\ seen = [p \in Procs |-> Unread]

ParseRssContent ==
    /\ app.fn = "parse_rss_content"
    /\ ~app.out.some
    /\ app' = [app EXCEPT !.out = Some(parse_rss_content(app.arg.content))]
    /\ UNCHANGED client_vars

SearchRoutes ==
    /\ app.fn = "handle_search_routes"
    /\ ~app.out.some
    /\ app' = [app EXCEPT !.out =
                  Some(handle_search_routes(app.arg.query, app.arg.namespace,
                                            app.arg.limit, app.arg.format,
                                            app.arg.fetched))]
    /\ UNCHANGED client_vars

SuggestRouteKeys ==
    /\ app.fn = "handle_suggest_route_keys"
    /\ ~app.out.some
    /\ app' = [app EXCEPT !.out =
                  Some(handle_suggest_route_keys(app.arg.namespace, app.arg.partial,
                                                 app.arg.limit, app.arg.fetched))]
    /\ UNCHANGED client_vars

SearchNamespaces ==
    /\ app.fn = "handle_search_namespaces"
    /\ ~app.out.some
    /\ app' = [app EXCEPT !.out =
                  Some(handle_search_namespaces(app.arg.query, app.arg.fetched))]
    /\ UNCHANGED client_vars

FetchThenHit ==
    /\ app.fn = "fetch_then_hit"
    /\ ~app.out.some
    /\ app' = [app EXCEPT !.out = Some(fetch_then_hit(app.arg.op, app.arg.fetched))]
    /\ UNCHANGED client_vars

\* The URL get_feed requests for the path, and for the path behind one more
\* separator.
GetFeed ==
    /\ app.fn = "get_feed"
    /\ ~app.out.some
    /\ app' = [app EXCEPT !.out =
                  Some([url |-> feed_url(app.arg.host, app.arg.path),
                        slashed |-> feed_url(app.arg.host, << "/" >> \o app.arg.path)])]
    /\ UNCHANGED client_vars

NextHandlers ==
    \/ GetFeed
    \/ FetchThenHit
    \/ ParseRssContent
    \/ SearchRoutes
    \/ SuggestRouteKeys
    \/ SearchNamespaces

SpecHandlers == InitHandlers /\ [][NextHandlers]_vars

\* ------------------------------------------------------------ properties

Count(s, e) == Cardinality({ i \in DOMAIN s : s[i] = e })
\* HTTP requests the caller's current call has issued, and how many of them
\* ended in a transport failure.
Requests(p) == Count(log[p], "request")
Failures(p) == Count(log[p], "transport")
Last(s) == s[Len(s)]
\* The caller's tool call has returned.
Finished(p) == pc[p] = "idle" /\ resp[p].kind \notin {"none", "tools"}
\* The caller's request passed validation and started a client operation.
Fetching(p) == frame[p].op \in ClientOps
\* A response arrived, whatever its status and body.
Responses == Outcomes \ {"transport"}
TtlTicks(op) == OpTtl(op) * TicksPerSec
\* The component operation of the caller's call failed, and with what message.
Failed(p) ==
    \/ retried[p] = "err"
    \/ /\ log[p] # << >>
       /\ \/ Last(log[p]) \in {"non2xx", "unreadable"}
          \/ Last(log[p]) = "mismatch" /\ frame[p].op # "get_feed"
FailureMessage(p) ==
    IF retried[p] = "err"
    THEN "HTTP GET failed after retries: "
         \o (IF last_err[p].some THEN last_err[p].val ELSE "")
    ELSE CASE Last(log[p]) = "non2xx" -> StatusError(frame[p].op, frame[p].param)
           [] Last(log[p]) = "unreadable" -> BodyError
           [] OTHER -> DecodeError

\* C1: a bulk call whose cache read finds an entry no older than the TTL
\* returns at that read, successfully, with the cached value and without any
\* HTTP request.
C1_FreshEntryServedWithoutFetch ==
    \A p \in Procs :
        (Fetching(p) /\ frame[p].op \in BulkOps
           /\ seen[p] >= 0 /\ seen[p] <= TtlTicks(frame[p].op)) =>
            /\ pc[p] = "idle"
            /\ resp[p].kind = "response"
            /\ ~resp[p].is_error
            /\ log[p] = << "hit" >>
            /\ Requests(p) = 0

C1_Witness ==
    \E p \in Procs :
        /\ frame[p].op = "get_all_radar_rules"
        /\ seen[p] > 0 /\ seen[p] <= TtlTicks(frame[p].op)
        /\ log[p] = << "hit" >>
        /\ sent = 1
        /\ resp[p] = [kind |-> "response", text |-> "debug:RulesResp#1", is_error |-> FALSE]

\* C2: a bulk call (the only one running) whose cache read finds an entry
\* older than the TTL does not serve it: it goes to the network, makes exactly
\* one request when the first one is answered, and on a 2xx body that
\* deserializes leaves the slot holding the fetched value and the instant of
\* the write.
C2_StaleEntryRefetched ==
    \A p \in Procs :
        (Fetching(p) /\ frame[p].op \in BulkOps /\ seen[p] > TtlTicks(frame[p].op)) =>
            /\ log[p][1] = "miss"
            /\ (cfg.retries >= 1 => Len(log[p]) >= 2 /\ log[p][2] = "request")
            /\ (Len(log[p]) >= 3 /\ log[p][3] \in Responses => Requests(p) = 1)
            /\ (Finished(p) /\ Len(log[p]) >= 3 /\ log[p][3] = "ok" =>
                  /\ Last(log[p]) = "put"
                  /\ cache[OpKey(frame[p].op)][1] = to_value(held[p].val)
                  /\ cache[OpKey(frame[p].op)][2] <= now)

\* What the code does in place of C2: the same, for an entry whose age in
\* whole seconds exceeds the TTL.
C2_WholeSecondsStaleRefetched ==
    \A p \in Procs :
        (Fetching(p) /\ frame[p].op \in BulkOps
           /\ seen[p] >= 0 /\ as_secs(seen[p]) > OpTtl(frame[p].op)) =>
            /\ log[p][1] = "miss"
            /\ (cfg.retries >= 1 => Len(log[p]) >= 2 /\ log[p][2] = "request")
            /\ (Len(log[p]) >= 3 /\ log[p][3] \in Responses => Requests(p) = 1)
            /\ (Finished(p) /\ Len(log[p]) >= 3 /\ log[p][3] = "ok" =>
                  /\ Last(log[p]) = "put"
                  /\ cache[OpKey(frame[p].op)][1] = to_value(held[p].val)
                  /\ cache[OpKey(frame[p].op)][2] <= now)

\* C3: with retries >= 1 a call never makes more than retries requests; its
\* fetch fails at the retry layer exactly when retries requests in a row ended
\* in a transport failure (and the last backoff sleep is over); and a response
\* after retries - 1 failures makes the retry layer succeed.
C3_RetryBudget ==
    \A p \in Procs :
        cfg.retries >= 1 =>
            /\ Requests(p) <= cfg.retries
            /\ (retried[p] = "err" <=> (Failures(p) = cfg.retries /\ pc[p] # "sleep"))
            /\ (retried[p] = "err" => Finished(p) /\ resp[p].is_error)
            /\ ((Failures(p) = cfg.retries - 1 /\ log[p] # << >>
                   /\ \E i \in DOMAIN log[p] : log[p][i] \in Responses)
                  => retried[p] = "ok" /\ Requests(p) = cfg.retries)

C3_Witness ==
    /\ cfg.retries = 2
    /\ \E p \in Procs :
          /\ log[p] = << "request", "transport", "sleep", "request", "ok" >>
          /\ retried[p] = "ok"
          /\ ~resp[p].is_error
    /\ \E q \in Procs :
          /\ log[q] = << "request", "transport", "sleep", "request", "transport", "sleep" >>
          /\ retried[q] = "err"
          /\ resp[q].is_error

\* C4: a response with a non-2xx status is the last thing that happens in a
\* call: no request and no sleep follow it, and the call has returned the
\* operation's failure.
C4_StatusFailureNotRetried ==
    \A p \in Procs :
        \A i \in DOMAIN log[p] :
            log[p][i] = "non2xx" =>
                /\ i = Len(log[p])
                /\ pc[p] = "idle"
                /\ resp[p].kind = "response"
                /\ resp[p].is_error
                /\ resp[p].text = "Error: " \o StatusError(frame[p].op, frame[p].param)

C4_Witness ==
    \E p \in Procs :
        /\ cfg.retries = 2
        /\ frame[p].op = "get_feed"
        /\ log[p] = << "request", "non2xx" >>
        /\ resp[p].text = "Error: Failed to fetch RSS feed from path: a"

\* C5 as stated: a targeted operation issues an HTTP request on every call
\* and never reads or writes the cache.
C5_TargetedAlwaysRequests ==
    \A p \in Procs :
        (Fetching(p) /\ frame[p].op \in TargetedOps) =>
            /\ Requests(p) >= 1
            /\ seen[p] = Unread
            /\ \A i \in DOMAIN log[p] : log[p][i] \notin {"hit", "miss", "put"}

\* C5, amended: with retries >= 1 a targeted operation issues an HTTP request
\* at the start of every call, whatever the cache holds; with any retries it
\* never reads or writes the cache.
C5_TargetedAlwaysLive ==
    \A p \in Procs :
        (Fetching(p) /\ frame[p].op \in TargetedOps) =>
            /\ (cfg.retries >= 1 => log[p] # << >> /\ log[p][1] = "request")
            /\ seen[p] = Unread
            /\ \A i \in DOMAIN log[p] : log[p][i] \notin {"hit", "miss", "put"}

C5_Witness ==
    \E p \in Procs :
        /\ frame[p].op = "get_namespace"
        /\ "namespaces" \in DOMAIN cache
        /\ now = cache["namespaces"][2]
        /\ log[p] = << "request", "ok" >>
        /\ ~resp[p].is_error

\* C6: a caller holds the cache lock only at its cache read and its cache
\* write, never while a request of its own is in flight or while it sleeps
\* the backoff.
C6_LockNotHeldAcrossFetch ==
    \A p \in Procs :
        /\ (pc[p] \in {"inflight", "sleep"} => lock # p)
        /\ (lock = p <=> pc[p] \in {"read", "write"})

C6_Witness ==
    \E p, q \in Procs :
        /\ p # q
        /\ pc[p] = "sleep"
        /\ log[p][1] = "miss"
        /\ lock = q

\* C7: a cache write replaces the slot by the writer's fetched value and the
\* instant of the write, whatever the slot held, and touches no other slot;
\* so when two callers missed on one key and both fetched, the slot ends with
\* the value of whichever wrote last.
C7_LastWriterWins ==
    [][ \A p \in Procs :
          (pc[p] = "write" /\ pc'[p] # "write") =>
              /\ cache'[OpKey(frame[p].op)] = << to_value(held[p].val), now >>
              /\ DOMAIN cache' = DOMAIN cache \cup {OpKey(frame[p].op)}
              /\ \A k \in DOMAIN cache : k # OpKey(frame[p].op) => cache'[k] = cache[k]
      ]_vars

C7_Witness ==
    \E p, q \in Procs :
        /\ p # q
        /\ frame[p].op = "get_all_namespaces" /\ frame[q].op = "get_all_namespaces"
        /\ log[p] = << "miss", "request", "ok", "put" >>
        /\ log[q] = << "miss", "request", "ok", "put" >>
        /\ seen[p] = Absent /\ seen[q] = Absent
        /\ held[p].val.id = 1 /\ held[q].val.id = 2
        /\ cache["namespaces"] = << to_value(held[p].val), now >>
        /\ now > 0

\* C8: when a request passed validation, handle_tool_call returns a response,
\* never a protocol error: "Error: <message>" with the error flag set when the
\* component operation failed, and the error flag clear when it succeeded.
C8_ComponentFailureInBand ==
    \A p \in Procs :
        (frame[p].handler # "" /\ pc[p] = "idle") =>
            /\ resp[p].kind = "response"
            /\ (Failed(p) => /\ resp[p].is_error
                             /\ resp[p].text = "Error: " \o FailureMessage(p))
            /\ (~Failed(p) => ~resp[p].is_error)

C8_Witness ==
    \E p \in Procs :
        /\ req[p].name = "suggest_route_keys"
        /\ log[p] = << "request", "mismatch" >>
        /\ resp[p] = [kind |-> "response",
                      text |-> "Error: error decoding response body",
                      is_error |-> TRUE]

\* C9: a call whose name list_tools does not advertise returns method-not-found,
\* whatever its arguments.
C9_UnknownToolNotFound ==
    \A p \in Procs :
        (req[p].name # "" /\ req[p].name \notin ListedTools) =>
            /\ pc[p] = "idle"
            /\ resp[p] = method_not_found("Unknown tool: " \o req[p].name)

C9_Witness ==
    \E p \in Procs :
        /\ req[p] = [name |-> "GET_FEED", arguments |-> Some([path |-> JStr("a")])]
        /\ resp[p].kind = "mcp_error"
        /\ resp[p].code = "method_not_found"

\* The arguments C10 names as required.
RequiredArgs(name) ==
    CASE name = "get_namespace" -> {"namespace"}
      [] name = "get_category" -> {"category"}
      [] name = "get_feed" -> {"path"}
      [] name = "search_routes" -> {"query"}
      [] name = "get_route_detail" -> {"namespace", "route_key"}
      [] name = "suggest_route_keys" -> {"namespace", "partial"}
      [] OTHER -> {}

\* The request lacks a required argument: no arguments object, or a required
\* key that is absent or whose value is not a string.
LacksRequired(r) ==
    /\ RequiredArgs(r.name) # {}
    /\ \/ ~r.arguments.some
       \/ \E k \in RequiredArgs(r.name) :
             \/ k \notin DOMAIN r.arguments.val
             \/ r.arguments.val[k].kind # "string"

\* C10: a call to a tool with required arguments that lacks one of them
\* returns invalid-params.
C10_MissingRequiredInvalid ==
    \A p \in Procs :
        LacksRequired(req[p]) =>
            /\ pc[p] = "idle"
            /\ resp[p].kind = "mcp_error"
            /\ resp[p].code = "invalid_params"

C10_Witness ==
    \E p \in Procs :
        /\ req[p] = [name |-> "get_route_detail",
                     arguments |-> Some([namespace |-> JStr("a"), route_key |-> JNum(7)])]
        /\ resp[p] = invalid_params("route_key parameter is required")

\* The request is one handle_tool_call rejects: a name without an arm, a
\* required argument lacking, or get_radar_rule with neither rule_name nor
\* domain a string.
RejectedRequest(r) ==
    \/ r.name \notin ListedTools
    \/ LacksRequired(r)
    \/ /\ r.name = "get_radar_rule"
       /\ ~arg_str(r.arguments, "rule_name").some
       /\ ~arg_str(r.arguments, "domain").some

\* C11 as stated: every call that has returned, whatever failed in it,
\* returned an in-band response, never a protocol-level error.
C11_EveryFailureInBand ==
    \A p \in Procs :
        Finished(p) =>
            /\ resp[p].kind = "response"
            /\ (RejectedRequest(req[p]) \/ Failed(p) => resp[p].is_error)

\* C11, amended: a call returns a protocol-level error exactly when its
\* request is rejected (invalid-params or method-not-found); every other call
\* returns an in-band response, whose error flag is set exactly when the
\* component operation failed.
C11_OnlyRejectionsLeaveTheBand ==
    \A p \in Procs :
        Finished(p) =>
            /\ resp[p].kind \in {"response", "mcp_error"}
            /\ (resp[p].kind = "mcp_error" <=> RejectedRequest(req[p]))
            /\ (resp[p].kind = "mcp_error" =>
                  resp[p].code \in {"invalid_params", "method_not_found"})
            /\ (resp[p].kind = "response" => (resp[p].is_error <=> Failed(p)))

C11_Witness ==
    \E p \in Procs :
        /\ req[p] = [name |-> "get_radar_rule",
                     arguments |-> Some([rule_name |-> JNum(7), format |-> JStr("json")])]
        /\ pc[p] = "idle"
        /\ resp[p] = invalid_params("rule_name or domain parameter is required")

\* C12: the step in which a call ends with invalid-params or method-not-found
\* issues no HTTP request and leaves both cache slots and the lock as they
\* were; the call has no client effect at all.
C12_RejectedCallTouchesNothing ==
    [][ \A p \in Procs :
          (resp'[p].kind = "mcp_error" /\ resp[p].kind # "mcp_error") =>
              /\ resp'[p].code \in {"invalid_params", "method_not_found"}
              /\ sent' = sent
              /\ cache' = cache
              /\ lock' = lock
              /\ log'[p] = << >>
              /\ seen'[p] = Unread
      ]_vars

C12_Witness ==
    \E p \in Procs :
        /\ resp[p].kind = "mcp_error"
        /\ resp[p].code = "invalid_params"
        /\ req[p].name = "get_route_detail"
        /\ "namespaces" \in DOMAIN cache
        /\ sent = 1
        /\ log[p] = << >>

\* The read tools C13 names, and whether a request asks for JSON.
FormatTools == {"get_all_namespaces", "get_namespace", "get_radar_rules",
                "get_radar_rule", "get_category", "get_feed", "search_routes",
                "get_route_detail"}
AsksJson(r) == arg_str(r.arguments, "format") = Some("json")
\* The text is the JSON serialization of a value of the call's operation.
JsonText(p) ==
    \E i \in 1..sent :
        LET x == ValueText(Typed(OpType(frame[p].op), i))
        IN resp[p].text \in {"json:" \o x, "json:hits:" \o x, "json:detail:" \o x}

\* C13: a successful call to a read tool returns the JSON serialization when
\* its format is "json" and the text form when its format is absent.
C13_FormatHonoured ==
    \A p \in Procs :
        (Finished(p) /\ req[p].name \in FormatTools
           /\ resp[p].kind = "response" /\ ~resp[p].is_error) =>
            (AsksJson(req[p]) <=> JsonText(p))

\* C15: a get_feed call that has returned failed exactly when its fetch
\* failed: the retry layer gave up, the status was not 2xx, or the body could
\* not be read; with a 2xx body read it succeeded, feed or no feed.
C15_FeedFailsOnlyOnFetch ==
    \A p \in Procs :
        (Finished(p) /\ frame[p].op = "get_feed") =>
            /\ resp[p].kind = "response"
            /\ (resp[p].is_error <=>
                  \/ retried[p] = "err"
                  \/ log[p] # << >> /\ Last(log[p]) \in {"non2xx", "unreadable"})
            /\ (log[p] # << >> /\ Last(log[p]) \in {"ok", "mismatch"} => ~resp[p].is_error)

C15_Witness ==
    \E p \in Procs :
        /\ req[p].name = "get_feed"
        /\ log[p] = << "request", "transport", "sleep", "request", "mismatch" >>
        /\ resp[p] = [kind |-> "response", text |-> "summary:FeedResponse#2",
                      is_error |-> FALSE]

\* The handler fn has run on app's inputs.
Ran(fn) == app.fn = fn /\ app.out.some

\* Equality, substring and prefix with upper and lower case taken as one.
EqIgnoreCase(a, b) ==
    Len(a) = Len(b) /\ \A i \in 1..Len(a) : LowerChar(a[i]) = LowerChar(b[i])
ContainsIgnoreCase(s, q) ==
    \E i \in 1..(Len(s) - Len(q) + 1) : EqIgnoreCase(SubSeq(s, i, i + Len(q) - 1), q)
StartsIgnoreCase(s, q) ==
    Len(q) <= Len(s) /\ EqIgnoreCase(SubSeq(s, 1, Len(q)), q)

\* C14: a body that is no channel-style feed parses to the document titled
\* "RSS Feed", described "RSS feed content", without items, whose raw content
\* is the body.
C14_NonFeedFallsBack ==
    (Ran("parse_rss_content") /\ app.arg.content.kind # "rss") =>
        app.out.val = Ok([title |-> "RSS Feed", description |-> "RSS feed content",
                          items |-> << >>, raw_content |-> Some(app.arg.content)])

C14_Witness ==
    /\ Ran("parse_rss_content")
    /\ app.arg.content = [kind |-> "other", text |-> "<html></html>"]
    /\ app.out.val.ok
    /\ app.out.val.val.title = "RSS Feed"
    /\ app.out.val.val.items = << >>

\* C16: on the parsed path and on the fallback path alike the document carries
\* a raw content, and it is the body that was parsed.
C16_RawContentAlwaysAttached ==
    Ran("parse_rss_content") =>
        /\ app.out.val.ok
        /\ app.out.val.val.raw_content.some
        /\ app.out.val.val.raw_content.val = app.arg.content

C16_Witness ==
    /\ Ran("parse_rss_content")
    /\ app.arg.content.kind = "rss"
    /\ Len(app.out.val.val.items) = 2
    /\ app.out.val.val.title = "T"
    /\ app.out.val.val.raw_content = Some(app.arg.content)

\* The routes of namespace ns in the value handle_search_routes fetched.
RoutesSearched(ns) ==
    LET m == IF app.arg.namespace.some
             THEN IF app.arg.namespace.val = ns THEN { app.arg.fetched } ELSE {}
             ELSE { app.arg.fetched[j].value : j \in { j \in 1..Len(app.arg.fetched) :
                                                          app.arg.fetched[j].key = ns } }
    IN UNION { { x.routes.val[i] : i \in 1..Len(x.routes.val) } :
                 x \in { x \in m : x.routes.some } }

\* C17: every hit is a route of the searched catalog, listed under its own
\* namespace, whose key, name, description or example contains the query,
\* case taken as one (an absent description or example does not count); with
\* a namespace argument every hit carries that namespace.
C17_HitsMatchQuery ==
    Ran("handle_search_routes") =>
        \A i \in 1..Len(app.out.val.hits) :
            LET h == app.out.val.hits[i] IN
            /\ \E r \in RoutesSearched(h.namespace) :
                  /\ h.route_key = r.key
                  /\ h.name = r.details.name
                  /\ h.description = r.details.description
                  /\ h.example = r.details.example
            /\ \/ ContainsIgnoreCase(h.route_key, app.arg.query)
               \/ ContainsIgnoreCase(h.name, app.arg.query)
               \/ h.description.some /\ ContainsIgnoreCase(h.description.val, app.arg.query)
               \/ h.example.some /\ ContainsIgnoreCase(h.example.val, app.arg.query)
            /\ (app.arg.namespace.some => h.namespace = app.arg.namespace.val)

C17_Witness ==
    /\ Ran("handle_search_routes")
    /\ app.arg.namespace = Some(<< "N", "s" >>)
    /\ app.arg.query = << "a", "a" >>
    /\ app.arg.limit = None
    /\ app.arg.fetched.routes.some
    /\ Len(app.arg.fetched.routes.val) = 2
    /\ Len(app.out.val.hits) = 1
    /\ app.out.val.hits[1].namespace = << "N", "s" >>
    /\ app.out.val.hits[1].route_key = << "c" >>

\* C18: the number of hits never exceeds the limit (20 when absent).
C18_HitsWithinLimit ==
    Ran("handle_search_routes") =>
        Len(app.out.val.hits) <= unwrap_or(app.arg.limit, DefaultSearchLimit)

\* The class of a key against the partial: 0 when it starts with it, 1 when
\* it only contains it, 2 when it does not contain it; and the distance of
\* their lengths (str::len).
KeyClass(k, partial) ==
    IF StartsIgnoreCase(k, partial) THEN 0
    ELSE IF ContainsIgnoreCase(k, partial) THEN 1 ELSE 2
LengthDiff(k, partial) ==
    IF len(k) >= len(partial) THEN len(k) - len(partial) ELSE len(partial) - len(k)

\* C19: in the suggested list the keys that start with the partial come
\* first, then those that only contain it, then the others, and inside each
\* class the keys come by ascending difference of length to the partial.
C19_SuggestionsRanked ==
    (Ran("handle_suggest_route_keys") /\ app.out.val.form = "suggested") =>
        LET list == app.out.val.list
            routes == app.arg.fetched.routes.val
        IN /\ \A i \in 1..Len(list) : \E j \in 1..Len(routes) : routes[j].key = list[i]
           /\ \A i, j \in 1..Len(list) :
                 i < j =>
                   /\ KeyClass(list[i], app.arg.partial) <= KeyClass(list[j], app.arg.partial)
                   /\ (KeyClass(list[i], app.arg.partial) = KeyClass(list[j], app.arg.partial)
                         => LengthDiff(list[i], app.arg.partial)
                              <= LengthDiff(list[j], app.arg.partial))

C19_Witness ==
    /\ Ran("handle_suggest_route_keys")
    /\ app.arg.partial = << "c" >>
    /\ app.arg.limit = None
    /\ app.arg.fetched.routes.some
    /\ Len(app.arg.fetched.routes.val) = 2
    /\ app.arg.fetched.routes.val[1].key = << "d", "c", "d" >>
    /\ app.arg.fetched.routes.val[2].key = << "c" >>
    /\ app.out.val.list = << << "c" >>, << "d", "c", "d" >> >>

\* The namespace keys of the catalog handle_search_namespaces fetched.
CatalogKeysFetched == { app.arg.fetched[j].key : j \in 1..Len(app.arg.fetched) }

\* C20: when the query matches a key, the namespaces listed are exactly the
\* keys that contain the query, case taken as one, each listed once.
C20_ExactlyTheMatchingKeys ==
    (Ran("handle_search_namespaces") /\ app.arg.query.some
       /\ \E k \in CatalogKeysFetched : ContainsIgnoreCase(k, app.arg.query.val)) =>
        /\ app.out.val.form = "matching"
        /\ { app.out.val.lines[i] : i \in 1..Len(app.out.val.lines) }
             = { k \in CatalogKeysFetched : ContainsIgnoreCase(k, app.arg.query.val) }
        /\ Len(app.out.val.lines)
             = Cardinality({ k \in CatalogKeysFetched :
                               ContainsIgnoreCase(k, app.arg.query.val) })

C20_Witness ==
    /\ Ran("handle_search_namespaces")
    /\ app.arg.query = Some(<< "A" >>)
    /\ Len(app.arg.fetched) = 3
    /\ app.out.val.form = "matching"
    /\ Len(app.out.val.lines) = 2
    /\ << "c" >> \in CatalogKeysFetched

\* ---------------------------------------------------------------------------
\* Claims C21..C30
\* ---------------------------------------------------------------------------

\* C21: a bulk call whose cache read finds an entry serves it exactly when
\* the entry's age (now - stored_at, fractions of a second included) is at
\* most the TTL: an entry older than the TTL by any amount is not served.
C21_ServedExactlyWithinTtl ==
    \A p \in Procs :
        (Fetching(p) /\ frame[p].op \in BulkOps /\ seen[p] >= 0) =>
            (log[p][1] = "hit" <=> seen[p] <= TtlTicks(frame[p].op))

\* C22: the cache changes only in the write step of a bulk call whose request
\* was answered by a 2xx body that deserialized, and that call then returns
\* the value; a bulk call whose fetch ends in a transport failure of every
\* attempt, a non-2xx status, or a body that is unreadable or does not match
\* the schema returns an error, has written nothing, and its return leaves
\* both slots (a stale entry included) as they were.
C22_FailedFetchLeavesCache ==
    [][ /\ cache' # cache =>
             \E p \in Procs :
                 /\ pc[p] = "write" /\ pc'[p] = "idle"
                 /\ frame[p].op \in BulkOps
                 /\ Last(log[p]) = "ok"
                 /\ held[p].some
                 /\ ~resp'[p].is_error
        /\ \A p \in Procs :
             (frame[p].op \in BulkOps /\ ~Finished(p) /\ Finished(p)') =>
                 /\ (\/ Last(log'[p]) \in {"non2xx", "mismatch", "unreadable"}
                     \/ retried'[p] = "err") => resp'[p].is_error
                 /\ resp'[p].is_error => (cache' = cache /\ Count(log'[p], "put") = 0)
      ]_vars

C22_Witness ==
    \E p \in Procs :
        /\ frame[p].op = "get_all_namespaces"
        /\ Finished(p) /\ resp[p].is_error
        /\ log[p] = << "miss", "request", "mismatch" >>
        /\ seen[p] >= TicksPerSec
        /\ "namespaces" \in DOMAIN cache
        /\ cache["namespaces"][2] + seen[p] <= now

\* C23: in every interleaving a slot changes only as a whole: each change of
\* a slot is the write of one caller that holds the lock, and leaves in the
\* slot that caller's fetched value (of the slot's type) paired with the
\* instant of this write; no slot is ever emptied; whoever reads or writes
\* the store holds the lock; and a reader that is served returns the value it
\* found in the slot, whole.
C23_SlotIsOneWholeWrite ==
    [][ /\ DOMAIN cache \subseteq DOMAIN cache'
        /\ \A k \in DOMAIN cache' :
             (k \notin DOMAIN cache \/ cache'[k] # cache[k]) =>
                 \E p \in Procs :
                     /\ lock = p /\ pc[p] = "write"
                     /\ OpKey(frame[p].op) = k
                     /\ held[p].val.typ = OpType(frame[p].op)
                     /\ cache'[k] = << to_value(held[p].val), now >>
        /\ \A p \in Procs :
             /\ pc[p] \in {"read", "write"} => lock = p
             /\ (pc[p] = "read" /\ log'[p] = << "hit" >>) =>
                    resp'[p] = ToolCallResponse(HandlerResult(frame[p],
                                   Ok(from_value(OpType(frame[p].op),
                                                 cache[OpKey(frame[p].op)][1]))))
      ]_vars

C23_Witness ==
    \E p, q \in Procs :
        /\ p # q
        /\ Finished(p) /\ log[p] = << "miss", "request", "ok", "put" >>
        /\ held[p] = Some(Typed("NamespaceResp", 2))
        /\ "namespaces" \in DOMAIN cache
        /\ cache["namespaces"] = << to_value(Typed("NamespaceResp", 2)), 1 >>
        /\ pc[q] = "write" /\ lock = q
        /\ frame[q].op = "get_all_namespaces"
        /\ held[q] = Some(Typed("NamespaceResp", 1))
        /\ now = 2

\* The slot and the TTL the claim gives each bulk operation.
SlotOf(op) == IF op = "get_all_namespaces" THEN "namespaces" ELSE "radar_rules"
TtlOf(op) == IF op = "get_all_namespaces" THEN cfg.namespaces_ttl_secs
                                          ELSE cfg.radar_rules_ttl_secs

\* C24: the cache never holds a key other than "namespaces" and
\* "radar_rules"; the cache check of get_all_namespaces is decided by the
\* "namespaces" slot and the namespaces TTL alone, that of get_all_radar_rules
\* by the "radar_rules" slot and the radar-rules TTL alone, and changes no
\* slot; the write of either operation fills its own slot and leaves the
\* other as it was.
C24_EachOperationItsOwnSlot ==
    [][ /\ DOMAIN cache' \subseteq {"namespaces", "radar_rules"}
        /\ \A p \in Procs :
             LET key == SlotOf(frame[p].op)
                 ttl == TtlOf(frame[p].op)
             IN /\ (pc[p] = "read" /\ pc'[p] # "read") =>
                      /\ frame[p].op \in {"get_all_namespaces", "get_all_radar_rules"}
                      /\ cache' = cache
                      /\ log'[p] = << "hit" >> <=>
                           /\ key \in DOMAIN cache
                           /\ (now - cache[key][2]) \div TicksPerSec <= ttl
                /\ (pc[p] = "write" /\ pc'[p] # "write") =>
                      /\ frame[p].op \in {"get_all_namespaces", "get_all_radar_rules"}
                      /\ DOMAIN cache' = DOMAIN cache \cup {key}
                      /\ cache'[key][1] = [json |-> held[p].val.id]
                      /\ held[p].val.typ = (IF key = "namespaces" THEN "NamespaceResp"
                                                                  ELSE "RulesResp")
                      /\ \A k \in DOMAIN cache : k # key => cache'[k] = cache[k]
      ]_vars

C24_Witness ==
    \E p \in Procs :
        /\ cfg.namespaces_ttl_secs < cfg.radar_rules_ttl_secs
        /\ DOMAIN cache = {"radar_rules"}
        /\ cache["radar_rules"][2] = 0
        /\ frame[p].op = "get_all_radar_rules" /\ log[p] = << "hit" >>
        /\ seen[p] = TicksPerSec /\ as_secs(seen[p]) > cfg.namespaces_ttl_secs

\* No caller has a call under way or a response undelivered.
Quiescent == \A p \in Procs : pc[p] = "idle" /\ resp[p] = NoResponse

\* Nothing of a call is left with caller p.
NothingKept(p) ==
    /\ req[p] = NoRequest /\ frame[p] = NoFrame
    /\ attempt[p] = 0 /\ last_err[p] = None /\ retried[p] = "none"
    /\ inflight[p] = 0 /\ held[p] = None /\ log[p] = << >> /\ seen[p] = Unread

\* The result of the client operation of the call caller 1 has finished, from
\* what the cache check found in the slot and what the network answered (the
\* last request's number names the body it returned).
OperationResult(d) ==
    LET l == log[1]
        op == d.op
    IN IF l = << >> \/ Last(l) \in {"miss", "sleep"}
       THEN Err("HTTP GET failed after retries: "
                \o (IF Failures(1) > 0 THEN TransportError(sent) ELSE ""))
       ELSE CASE Last(l) = "hit" -> Ok(Typed(OpType(op), cache[OpKey(op)][1].json))
              [] Last(l) = "non2xx" -> Err(StatusError(op, d.param))
              [] Last(l) = "unreadable" -> Err(BodyError)
              [] Last(l) = "mismatch" /\ op # "get_feed" -> Err(DecodeError)
              [] OTHER -> Ok(Typed(OpType(op), sent))

\* The response of that call, from its name and arguments and that result.
ExpectedResponse ==
    LET d == Dispatch(req[1].name, req[1].arguments)
    IN ToolCallResponse(HandlerResult(d, OperationResult(d)))

\* C25: a call leaves nothing behind but the cache slots, and its outcome
\* is a function of its name and arguments, the slots and the remote
\* responses: the configuration never changes; once the response is
\* delivered the lock is free and nothing of the call is kept; a call starts
\* from nothing kept, and what it is dispatched to is decided by its name and
\* arguments alone; and the response of a call that ran a client operation
\* is the one computed from the request, the slot the cache check read and
\* the answers of the network.
C25_OnlyTheCacheOutlivesACall ==
    [][ /\ cfg' = cfg
        /\ Quiescent' => (lock' = 0 /\ \A p \in Procs : NothingKept(p)')
        /\ (req[1] = NoRequest /\ req'[1] # NoRequest) =>
             LET d == Dispatch(req'[1].name, req'[1].arguments)
             IN /\ NothingKept(1)
                /\ cache' = cache
                /\ d.kind = "mcp_error" => resp'[1] = d
                /\ d.kind # "mcp_error" => frame'[1] = d
        /\ (~Finished(1) /\ Finished(1)' /\ frame'[1].op \in ClientOps) =>
             resp'[1] = ExpectedResponse'
      ]_vars

C25_Witness ==
    /\ calls = 2
    /\ req[1] = [name |-> "search_namespaces", arguments |-> None]
    /\ Finished(1) /\ log[1] = << "hit" >>
    /\ sent = 1
    /\ resp[1] = [kind |-> "response", text |-> "namespaces:NamespaceResp#1",
                  is_error |-> FALSE]

\* Concurrent callers under the scheduling the runtime gives them: a caller
\* that can take a step (the lock is free, the request in flight is
\* answered, the sleep is over) eventually takes one.
SpecLive == Init /\ [][Next]_vars /\ \A p \in Procs : WF_vars(Step(p))

\* C26: with every HTTP attempt completing, every call that was started
\* eventually returns, however many callers share the client; and no
\* deadlock is reachable: while a call is under way some caller can step, and
\* a caller waits for nothing but the lock, which whoever holds can release.
C26_EveryCallReturns ==
    /\ \A p \in Procs : (pc[p] # "idle") ~> (pc[p] = "idle")
    /\ [](\A p \in Procs :
             /\ pc[p] # "idle" => \E q \in Procs : ENABLED Step(q)
             /\ (pc[p] # "idle" /\ ~ENABLED Step(p)) =>
                    /\ pc[p] \in {"lock_r", "lock_w"}
                    /\ lock \in Procs \ {p}
                    /\ pc[lock] \in {"read", "write"})

C26_Witness ==
    \E p, q \in Procs :
        /\ p # q
        /\ pc[p] = "lock_w" /\ pc[q] = "read" /\ lock = q
        /\ frame[p].op = frame[q].op
        /\ now > 0

\* C27: every answer to a tools/list request is the one fixed catalog: the
\* eleven descriptors of the registry in its order, each with its own
\* description and schema, and no further page; whatever the request's
\* cursor, whatever the cache holds and whatever calls came before.
C27_CatalogFixed ==
    \A p \in Procs :
        resp[p].kind = "tools" =>
            /\ resp[p].result.ok
            /\ resp[p].result.val.next_cursor = None
            /\ resp[p].result.val.tools = Tools
            /\ Len(resp[p].result.val.tools) = 11
            /\ \A i \in 1..Len(ToolNames) :
                   /\ resp[p].result.val.tools[i].name = ToolNames[i]
                   /\ RequiredArgs(ToolNames[i])
                        \subseteq { pr[1] : pr \in resp[p].result.val.tools[i]
                                                      .input_schema.properties }

C27_Witness ==
    /\ resp[1].kind = "tools"
    /\ resp[1].request.cursor.some
    /\ calls = 2
    /\ "radar_rules" \in DOMAIN cache
    /\ resp[1].result.val.tools[9].input_schema.required = << "query" >>

\* C28: the value a cache hit of a bulk operation returns equals the value
\* the fetch that filled the slot returned, each variant field with the
\* shape it had (a single value or a list, a boolean or a list).
C28_HitReturnsWhatTheFetchReturned ==
    Ran("fetch_then_hit") =>
        /\ app.out.val.fetched = Ok(app.arg.fetched)
        /\ app.out.val.hit.ok
        /\ app.out.val.hit = app.out.val.fetched

C28_Witness ==
    /\ Ran("fetch_then_hit")
    /\ app.arg.op = "get_all_namespaces"
    /\ app.arg.fetched.n.routes.some
    /\ app.arg.fetched.n.routes.val.r.radar.some
    /\ is_variant(app.arg.fetched.n.routes.val.r.radar.val, "Multiple")
    /\ Len(app.arg.fetched.n.routes.val.r.radar.val.Multiple) = 1
    /\ app.arg.fetched.n.routes.val.r.radar.val.Multiple[1].source = Variant("Single", "s")
    /\ app.out.val.hit.ok
    /\ is_variant(app.out.val.hit.val.n.routes.val.r.radar.val, "Multiple")

\* C29: when the only caller's fetch has used up its retries on transport
\* failures, the error returned names the cause of the last failed attempt
\* (that of the last request issued), not that of an earlier one.
C29_LastCauseReported ==
    (retried[1] = "err" /\ cfg.retries >= 1) =>
        /\ Failures(1) = cfg.retries
        /\ last_err[1] = Some(TransportError(sent))
        /\ resp[1].text = "Error: HTTP GET failed after retries: " \o TransportError(sent)
        /\ \A id \in 1..(sent - 1) :
               resp[1].text # "Error: HTTP GET failed after retries: " \o TransportError(id)

C29_Witness ==
    /\ cfg.retries = 2
    /\ req[1].name = "get_radar_rules"
    /\ log[1] = << "miss", "request", "transport", "sleep", "request", "transport", "sleep" >>
    /\ retried[1] = "err"
    /\ sent = 2
    /\ resp[1].text = "Error: HTTP GET failed after retries: error sending request #2"

\* C30: get_feed strips exactly one leading separator: for a path p that
\* does not start with "/" the URLs of "/" + p and of p are the same, the
\* host, one separator and p; and for a path that starts with "/" the URL of
\* "/" + p keeps p whole, its own leading separator included, so it differs
\* from the URL of p.
C30_OneSeparatorStripped ==
    Ran("get_feed") =>
        LET p == app.arg.path
            h == app.arg.host
        IN IF p = << >> \/ p[1] # "/"
           THEN /\ app.out.val.slashed = app.out.val.url
                /\ app.out.val.url = h \o << "/" >> \o p
           ELSE /\ app.out.val.slashed = h \o << "/" >> \o p
                /\ app.out.val.slashed # app.out.val.url

C30_Witness ==
    /\ Ran("get_feed")
    /\ app.arg.path = << "/", "a" >>
    /\ app.out.val.url = app.arg.host \o << "/", "a" >>
    /\ app.out.val.slashed = app.arg.host \o << "/", "/", "a" >>

\* ------------------------------------------------------ Claims C31..C40

\* The namespaces handle_search_routes looked into: the given one, or every
\* namespace of the fetched catalog.
NamespacesSearched ==
    IF app.arg.namespace.some THEN { app.arg.namespace.val }
    ELSE { app.arg.fetched[j].key : j \in 1..Len(app.arg.fetched) }

\* The route r is one the query matches, case taken as one.
QueryMatches(r) ==
    \/ ContainsIgnoreCase(r.key, app.arg.query)
    \/ ContainsIgnoreCase(r.details.name, app.arg.query)
    \/ r.details.description.some
         /\ ContainsIgnoreCase(r.details.description.val, app.arg.query)
    \/ r.details.example.some
         /\ ContainsIgnoreCase(r.details.example.val, app.arg.query)

\* C31: when handle_search_routes returns fewer hits than the limit, every
\* route in scope that the query matches is among the hits exactly once; the
\* scope is the given namespace's routes, or the routes of every namespace of
\* the catalog when none is given.
C31_BelowLimitEveryMatchOnce ==
    (Ran("handle_search_routes")
       /\ Len(app.out.val.hits) < unwrap_or(app.arg.limit, DefaultSearchLimit)) =>
        \A ns \in NamespacesSearched :
            \A r \in RoutesSearched(ns) :
                QueryMatches(r) =>
                    Cardinality({ i \in 1..Len(app.out.val.hits) :
                                    /\ app.out.val.hits[i].namespace = ns
                                    /\ app.out.val.hits[i].route_key = r.key }) = 1

C31_Witness ==
    /\ Ran("handle_search_routes")
    /\ app.arg.namespace = None
    /\ app.arg.query = << "B", "a" >>
    /\ app.arg.limit = None
    /\ Len(app.arg.fetched) = 2
    /\ \A j \in 1..2 : app.arg.fetched[j].value.routes.some
                         /\ Len(app.arg.fetched[j].value.routes.val) = 2
    /\ Len(app.out.val.hits) = 2
    /\ app.out.val.hits[1].namespace # app.out.val.hits[2].namespace
    /\ \A i \in 1..2 : app.out.val.hits[i].route_key = << "c" >>

\* The route keys of the namespace handle_suggest_route_keys fetched.
KeysSuggestedFrom ==
    IF app.arg.fetched.routes.some
    THEN { app.arg.fetched.routes.val[i].key : i \in 1..Len(app.arg.fetched.routes.val) }
    ELSE {}

\* The distance of the numbers of characters of two strings.
CharsDiff(a, b) == IF Len(a) >= Len(b) THEN Len(a) - Len(b) ELSE Len(b) - Len(a)

\* C33: the third component of the rank of every key is the absolute
\* difference of the number of characters of the key and of the partial,
\* characters of more than one byte included.
C33_ThirdComponentCountsCharacters ==
    Ran("handle_suggest_route_keys") =>
        \A k \in KeysSuggestedFrom :
            suggest_key(k, to_lowercase(app.arg.partial))[3] = CharsDiff(k, app.arg.partial)

\* The rank of a key of the fetched namespace, and its place in the order in
\* which the catalog yielded the keys.
RankOf(k) == suggest_key(k, to_lowercase(app.arg.partial))
YieldedAt(k) ==
    CHOOSE i \in 1..Len(app.arg.fetched.routes.val) : app.arg.fetched.routes.val[i].key = k

\* The key a comes before the key b in the sorted order: by rank, and by the
\* catalog's order when the ranks are equal.
SortsBefore(a, b) ==
    LET ra == RankOf(a)
        rb == RankOf(b)
    IN \/ ra[1] < rb[1]
       \/ ra[1] = rb[1] /\ ra[2] < rb[2]
       \/ ra[1] = rb[1] /\ ra[2] = rb[2] /\ ra[3] < rb[3]
       \/ ra = rb /\ YieldedAt(a) < YieldedAt(b)

\* C32: suggest_route_keys returns min(limit, number of keys) keys of the
\* namespace, the first ones of the sorted order whether they match the
\* partial or not; keys of equal rank stay in the order in which the catalog
\* yielded them.
C32_FirstKeysOfStableOrder ==
    Ran("handle_suggest_route_keys") =>
        /\ app.out.val.form = "suggested" <=> app.arg.fetched.routes.some
        /\ app.out.val.form = "suggested" =>
             LET list == app.out.val.list
                 lim == unwrap_or(app.arg.limit, DefaultSuggestLimit)
                 n == Cardinality(KeysSuggestedFrom)
             IN /\ Len(list) = IF lim < n THEN lim ELSE n
                /\ \A i \in 1..Len(list) : list[i] \in KeysSuggestedFrom
                /\ \A i, j \in 1..Len(list) : i < j => SortsBefore(list[i], list[j])
                /\ \A k \in KeysSuggestedFrom \ { list[i] : i \in 1..Len(list) } :
                      \A i \in 1..Len(list) : SortsBefore(list[i], k)

C32_Witness ==
    /\ Ran("handle_suggest_route_keys")
    /\ app.arg.partial = << "x" >>
    /\ app.arg.limit = Some(2)
    /\ app.arg.fetched.routes.some
    /\ Len(app.arg.fetched.routes.val) = 2
    /\ app.arg.fetched.routes.val[1].key = << "b", "c", "a" >>
    /\ app.arg.fetched.routes.val[2].key = << "d", "c", "d" >>
    /\ RankOf(<< "b", "c", "a" >>) = RankOf(<< "d", "c", "d" >>)
    /\ app.out.val.list = << << "b", "c", "a" >>, << "d", "c", "d" >> >>

\* The "required" array of the schema list_tools advertises for the tool name.
SchemaRequired(name) ==
    LET t == Tools[CHOOSE i \in 1..Len(Tools) : Tools[i].name = name]
    IN { t.input_schema.required[i] : i \in 1..Len(t.input_schema.required) }

\* C34: for every advertised tool, a call that supplies every argument of the
\* schema's "required" array as a string is not rejected with invalid-params,
\* and a call that omits one of them is.
C34_ValidationAgreesWithSchema ==
    \A p \in Procs :
        (Finished(p) /\ req[p].name \in ListedTools) =>
            LET rejected == resp[p].kind = "mcp_error" /\ resp[p].code = "invalid_params"
                required == SchemaRequired(req[p].name)
            IN /\ (\A k \in required : arg_str(req[p].arguments, k).some) => ~rejected
               /\ (\E k \in required :
                      \/ ~req[p].arguments.some
                      \/ k \notin DOMAIN req[p].arguments.val) => rejected

\* The argument k of the request r is there and is a string.
IsStringArg(r, k) ==
    /\ r.arguments.some
    /\ k \in DOMAIN r.arguments.val
    /\ r.arguments.val[k].kind = "string"

\* The call of caller p looks up the radar rule named v.
LooksUpRule(p, v) ==
    /\ frame[p].kind = "call"
    /\ frame[p].handler = "handle_get_radar_rule"
    /\ frame[p].op = "get_radar_rule"
    /\ frame[p].param = v
    /\ resp[p].kind # "mcp_error"

\* C35: get_radar_rule looks up the string value of rule_name when there is
\* one, otherwise the string value of domain when there is one, also when
\* rule_name is there but is no string; it returns invalid-params only when
\* neither is a string.
C35_RuleNameThenDomain ==
    \A p \in Procs :
        req[p].name = "get_radar_rule" =>
            IF IsStringArg(req[p], "rule_name")
            THEN LooksUpRule(p, req[p].arguments.val["rule_name"].s)
            ELSE IF IsStringArg(req[p], "domain")
            THEN LooksUpRule(p, req[p].arguments.val["domain"].s)
            ELSE /\ resp[p] = invalid_params("rule_name or domain parameter is required")
                 /\ frame[p] = NoFrame

C35_Witness ==
    \E p \in Procs :
        /\ req[p] = [name |-> "get_radar_rule",
                     arguments |-> Some([rule_name |-> JNum(7), domain |-> JStr("b")])]
        /\ LooksUpRule(p, "b")
        /\ log[p] = << "request", "ok" >>
        /\ resp[p].kind = "response"
        /\ ~resp[p].is_error

\* The names of the descriptors list_tools returns.
AdvertisedNames ==
    LET tools == list_tools([cursor |-> None]).val.tools
    IN { tools[i].name : i \in 1..Len(tools) }

\* C36: the names list_tools advertises are the names handle_tool_call
\* dispatches: a call is answered method-not-found exactly when its name is
\* not an advertised one.
C36_AdvertisedIsDispatched ==
    \A p \in Procs :
        (req[p] # NoRequest /\ (pc[p] # "idle" \/ resp[p] # NoResponse)) =>
            (req[p].name \in AdvertisedNames
               <=> ~(resp[p].kind = "mcp_error" /\ resp[p].code = "method_not_found"))

C36_Witness ==
    \E p \in Procs :
        /\ req[p] = [name |-> "get_categories", arguments |-> None]
        /\ "get_categories" \in AdvertisedNames
        /\ Cardinality(AdvertisedNames) = 11
        /\ pc[p] = "idle"
        /\ resp[p].kind = "response"
        /\ ~resp[p].is_error

\* Backoff sleeps the caller's current call has begun.
Sleeps(p) == Count(log[p], "sleep")

\* C37: a sleep follows every failed attempt, the last one included: a fetch
\* that exhausted its retries slept retries times, the last of them just
\* before it reported the failure; a fetch that got its response on attempt k
\* slept k - 1 times; no call returns while it sleeps.
C37_SleepAfterEveryFailure ==
    \A p \in Procs :
        /\ \A i \in DOMAIN log[p] :
              log[p][i] = "transport" => i < Len(log[p]) /\ log[p][i + 1] = "sleep"
        /\ Sleeps(p) = Failures(p)
        /\ retried[p] = "err" =>
              /\ Sleeps(p) = cfg.retries
              /\ cfg.retries > 0 => Last(log[p]) = "sleep"
        /\ retried[p] = "ok" => Sleeps(p) = attempt[p] - 1
        /\ pc[p] = "sleep" => resp[p] = NoResponse

C37_Witness ==
    \E p \in Procs :
        /\ cfg.retries = 1
        /\ frame[p].op = "get_category"
        /\ log[p] = << "request", "transport", "sleep" >>
        /\ retried[p] = "err"
        /\ Finished(p)
        /\ resp[p].is_error

\* C38: with retries = 0 no HTTP request is issued and no backoff is slept;
\* every fetch fails at once with the failure after retries that names no
\* cause, so a call of a targeted operation fails and a call of a bulk
\* operation fails unless the cache served it.
C38_NoRetriesNoRequest ==
    cfg.retries = 0 =>
        /\ sent = 0
        /\ \A p \in Procs :
              /\ \A i \in DOMAIN log[p] : log[p][i] \notin {"request", "sleep"}
              /\ pc[p] \notin {"inflight", "sleep"}
              /\ (Fetching(p) /\ pc[p] = "idle") =>
                    \/ /\ frame[p].op \in BulkOps
                       /\ log[p] = << "hit" >>
                       /\ ~resp[p].is_error
                    \/ /\ retried[p] = "err"
                       /\ resp[p] = [kind |-> "response",
                                     text |-> "Error: HTTP GET failed after retries: ",
                                     is_error |-> TRUE]

C38_Witness ==
    \E p \in Procs :
        /\ cfg.retries = 0
        /\ sent = 0
        /\ frame[p].op = "get_all_radar_rules"
        /\ log[p] = << "miss" >>
        /\ pc[p] = "idle"
        /\ resp[p].kind = "response"
        /\ resp[p].is_error

\* C39: a slot that holds an entry holds one ever after, stale or not, and
\* the instant of its entry never goes back from one write to the next,
\* however the calls of concurrent callers interleave.
C39_SlotsOnlyMoveForward ==
    [][ \A k \in DOMAIN cache :
           /\ k \in DOMAIN cache'
           /\ cache'[k][2] >= cache[k][2] ]_vars

C39_Witness ==
    \E p \in Procs :
        /\ frame[p].op = "get_all_namespaces"
        /\ seen[p] >= TicksPerSec
        /\ log[p] = << "miss", "request", "ok", "put" >>
        /\ DOMAIN cache = {"namespaces"}
        /\ cache["namespaces"][2] = now
        /\ now >= TicksPerSec

\* What the arm makes of an optional argument k of the request r: its string,
\* or its unsigned integer, when it is there and of that type; else nothing.
StringGiven(r, k) ==
    IF IsStringArg(r, k) THEN Some(r.arguments.val[k].s) ELSE None
UnsignedGiven(r, k) ==
    IF /\ r.arguments.some
       /\ k \in DOMAIN r.arguments.val
       /\ r.arguments.val[k].kind = "number"
       /\ r.arguments.val[k].n >= 0
    THEN Some(r.arguments.val[k].n) ELSE None

\* The required arguments of r are all there as strings (for get_radar_rule,
\* one of rule_name and domain is).
RequiredGiven(r) ==
    /\ \A k \in RequiredArgs(r.name) : IsStringArg(r, k)
    /\ r.name = "get_radar_rule" => IsStringArg(r, "rule_name") \/ IsStringArg(r, "domain")

\* C40: no call is answered invalid-params because of an optional argument.
\* An optional argument of another type (a format, namespace or query that
\* is no string, a limit that is no unsigned integer) is taken as absent; a
\* format other than "json", letter case aside, gives the text form; a limit
\* outside the schema's range is passed to the handler as it was given.
C40_OptionalNeverRejects ==
    \A p \in Procs :
        (req[p].name \in ListedTools /\ RequiredGiven(req[p])) =>
            /\ resp[p].kind # "mcp_error"
            /\ frame[p].kind = "call"
            /\ req[p].name \in FormatTools \ {"get_all_namespaces"} =>
                  frame[p].format = StringGiven(req[p], "format")
            /\ req[p].name \in {"search_routes", "suggest_route_keys"} =>
                  frame[p].limit = UnsignedGiven(req[p], "limit")
            /\ req[p].name = "search_routes" =>
                  frame[p].op = IF StringGiven(req[p], "namespace").some
                                THEN "get_namespace" ELSE "get_all_namespaces"
            /\ req[p].name = "search_namespaces" =>
                  frame[p].format = StringGiven(req[p], "query")
            /\ (Finished(p) /\ ~resp[p].is_error
                  /\ req[p].name \in FormatTools \ {"get_all_namespaces"}) =>
                  (JsonText(p) <=> StringGiven(req[p], "format") \in
                                      { Some("json"), Some("JSON"), Some("Json") })

C40_Witness ==
    \E p \in Procs :
        /\ req[p] = [name |-> "search_routes",
                     arguments |-> Some([query |-> JStr("a"), namespace |-> JStr("a"),
                                         limit |-> JStr("5")])]
        /\ frame[p].limit = None
        /\ frame[p].format = None
        /\ Finished(p)
        /\ ~resp[p].is_error
        /\ ~JsonText(p)

====
